---- MODULE Spec2Model ----
(***************************************************************************)
(* A model of apkdoctor's DEX codec: the LEB128 and packed-width           *)
(* primitives (encode.rs, decode.rs, encoded_value_utils.rs), the record   *)
(* codecs of dex_structs.rs, the container functions of lib.rs, the model  *)
(* builder of dex_model.rs and the instruction decoder of                  *)
(* instructions/mod.rs.                                                    *)
(*                                                                         *)
(* Machine integers are bit vectors: a u32 / i32 is a sequence of 32 bits, *)
(* an i64 / u64 a sequence of 64 bits, least significant bit first, so     *)
(* that shifts, truncating casts and wrap-around are what the hardware     *)
(* does.  Bytes, lengths, counts and cursor positions are naturals.        *)
(***************************************************************************)
EXTENDS Integers, Sequences, FiniteSets, TLC

VARIABLES
    build,      \* "debug" (overflow checks on, as under cargo test) or "release"
    pc,         \* position of the run in progress
    op,         \* LEB128 flavour under test: "uleb128", "sleb128" or "uleb128p1"
    x,          \* the 32-bit argument handed to the encoder
    enc,        \* outcome of the encoder: the bytes written, and whether it panicked
    dec,        \* outcome of the decoder: ok, the value, and the cursor position
    kind,       \* which get_required_bytes_* function is under test
    v,          \* its argument: an i64 / u64 value or an f32 / f64 bit pattern
    rb,         \* the byte count it returned (0: not called yet)
    packed,     \* the rb payload bytes EncodedValue::serialize wrote for v
    unpacked,   \* outcome of the decode_nbytes_* function on packed
    rkind,      \* the DexStruct kind of the record under test
    wire,       \* the bytes the record is decoded from
    rec,        \* outcome of deserialize on wire: ok, the record, the cursor position
    sz,         \* what size() returned for the record
    outBytes,   \* the bytes serialize wrote
    buf,        \* the cursor's buffer: size() zero bytes, then written over
    rec2,       \* outcome of deserialize on buf
    open_err,   \* the OS error File::open fails with on the path (0: it opens)
    file,       \* the bytes of the DEX file at the path handed to deserialize
    dex,        \* outcome of deserialize: ok and the DexFile
    ser,        \* the byte vector serialize returned
    builder,    \* the DexModelBuilder: each field None (<<>>) or Some(x) (<<x>>)
    model,      \* outcome of DexModelBuilder::build
    input,      \* the bytes the reader handed to decode_insns stands on
    insns_size, \* the count of code units decode_insns was called with
    units,      \* insns_size as the loop counts it down (usize)
    ipos,       \* the reader's position in input
    decoded,    \* insns: the instructions decode_insns has pushed
    ends,       \* the reader's position after each of them
    emitted,    \* the bytes serialize wrote for each instruction
    sizes       \* what size() returned for each instruction

lebVars == <<op, x, enc, dec>>
widthVars == <<kind, v, rb, packed, unpacked>>
recVars == <<rkind, wire, rec, sz, outBytes, buf, rec2>>
fileVars == <<open_err, file, dex, ser>>
builderVars == <<builder, model>>
insnVars == <<input, insns_size, units, ipos, decoded, ends, emitted, sizes>>
vars == <<build, pc, lebVars, widthVars, recVars, fileVars, builderVars, insnVars>>

(***************************************************************************)
(* Machine integers.  A value of width w bits is its w/8 bytes in          *)
(* little-endian order (what to_le_bytes gives); the bit operations go     *)
(* through the bits, least significant first.                              *)
(***************************************************************************)
RECURSIVE NatBits(_, _)
\* the low w bits of the natural n, least significant first
NatBits(n, w) == IF w = 0 THEN <<>> ELSE <<n % 2>> \o NatBits(n \div 2, w - 1)

RECURSIVE BitsNat(_)
\* the natural a (short) bit sequence denotes
BitsNat(b) == IF Len(b) = 0 THEN 0 ELSE Head(b) + 2 * BitsNat(Tail(b))

RECURSIVE Bits(_)
Bits(bs) == IF Len(bs) = 0 THEN <<>> ELSE NatBits(Head(bs), 8) \o Bits(Tail(bs))

RECURSIVE Bytes(_)
Bytes(bits) ==
    IF Len(bits) = 0 THEN <<>>
    ELSE <<BitsNat(SubSeq(bits, 1, 8))>> \o Bytes(SubSeq(bits, 9, Len(bits)))

\* the natural n as a w-bit integer (n as uW)
Num(n, w) == Bytes(NatBits(n, w))
\* the value of an integer known to be below 2^31
ToNat(b) == BitsNat(Bits(b))
Zeros(w) == Bytes([i \in 1..w |-> 0])
Ones(w) == Bytes([i \in 1..w |-> 1])
\* 2^k - 1 and 2^k as w-bit integers
LowOnes(k, w) == Bytes([i \in 1..w |-> IF i <= k THEN 1 ELSE 0])
OneBit(k, w) == Bytes([i \in 1..w |-> IF i = k + 1 THEN 1 ELSE 0])
BitNot(b) == [i \in 1..Len(b) |-> 255 - b[i]]
BitOr(a, b) ==
    LET p == Bits(a)
        q == Bits(b)
    IN  Bytes([i \in 1..Len(p) |-> IF p[i] = 1 \/ q[i] = 1 THEN 1 ELSE 0])
\* <<, >> on unsigned and >> on signed operands, shift amount already in range
Shl(b, k) ==
    LET p == Bits(b) IN Bytes([i \in 1..Len(p) |-> IF i > k THEN p[i - k] ELSE 0])
Shr(b, k) ==
    LET p == Bits(b)
    IN  Bytes([i \in 1..Len(p) |-> IF i + k <= Len(p) THEN p[i + k] ELSE 0])
Sar(b, k) ==
    LET p == Bits(b)
    IN  Bytes([i \in 1..Len(p) |-> IF i + k <= Len(p) THEN p[i + k] ELSE p[Len(p)]])
\* `as u8`: the low byte
LowByte(b) == b[1]
IsNeg(b) == b[Len(b)] >= 128

RECURSIVE LeadingRun(_, _)
\* the number of leading (most significant) bits of the bit sequence p equal to bit
LeadingRun(p, bit) ==
    IF Len(p) = 0 \/ p[Len(p)] # bit THEN 0
    ELSE 1 + LeadingRun(SubSeq(p, 1, Len(p) - 1), bit)

leading_zeros(b) == LeadingRun(Bits(b), 0)
leading_ones(b) == LeadingRun(Bits(b), 1)

RECURSIVE TrailingRun(_)
TrailingRun(p) == IF Len(p) = 0 \/ Head(p) # 0 THEN 0 ELSE 1 + TrailingRun(Tail(p))

trailing_zeros(b) == TrailingRun(Bits(b))

RECURSIVE AddOne(_)
\* wrapping + 1
AddOne(b) ==
    IF Len(b) = 0 THEN <<>>
    ELSE IF Head(b) < 255 THEN <<Head(b) + 1>> \o Tail(b)
    ELSE <<0>> \o AddOne(Tail(b))

RECURSIVE SubOne(_)
\* wrapping - 1
SubOne(b) ==
    IF Len(b) = 0 THEN <<>>
    ELSE IF Head(b) > 0 THEN <<Head(b) - 1>> \o Tail(b)
    ELSE <<255>> \o SubOne(Tail(b))

\* i32::MAX and i32::MIN
I32Max == LowOnes(31, 32)
I32Min == OneBit(31, 32)

(***************************************************************************)
(* encode.rs: LEB128 writers.  A writer's outcome is the bytes it appended *)
(* to the sink and whether it ended in panic!.                             *)
(***************************************************************************)
RECURSIVE encode_uleb128_loop(_, _, _)
encode_uleb128_loop(data, out, bytes_written) ==
    LET data2 == Shr(data, 7)
        low == LowByte(data) % 128
        byte == IF data2 # Zeros(32) THEN low + 128 ELSE low
        out2 == Append(out, byte)
        written == bytes_written + 1
    IN  IF data2 = Zeros(32) THEN [bytes |-> out2, panicked |-> FALSE]
        ELSE IF written > 4 THEN [bytes |-> out2, panicked |-> TRUE]
        ELSE encode_uleb128_loop(data2, out2, written)

\* the length guard off by one: a fifth byte is refused
encode_uleb128_guard3(data) == encode_uleb128_loop(data, <<>>, 1)

encode_uleb128(data) == encode_uleb128_loop(data, <<>>, 0)

RECURSIVE encode_sleb128_loop(_, _, _)
encode_sleb128_loop(data, out, bytes_written) ==
    LET data2 == Sar(data, 7)
        low == LowByte(data) % 128
        signbit == (low \div 64) % 2
        last == (data2 = Zeros(32) /\ signbit = 0) \/ (data2 = Ones(32) /\ signbit = 1)
        byte == IF last THEN low ELSE low + 128
        out2 == Append(out, byte)
        written == bytes_written + 1
    IN  IF written > 4 THEN [bytes |-> out2, panicked |-> TRUE]
        ELSE IF last THEN [bytes |-> out2, panicked |-> FALSE]
        ELSE encode_sleb128_loop(data2, out2, written)

encode_sleb128(data) == encode_sleb128_loop(data, <<>>, 0)

\* (data + 1) as uleb128: the i32 addition overflows at i32::MAX, which
\* panics under overflow checks and wraps without them
encode_uleb128p1(data) ==
    IF data = I32Max /\ build = "debug"
    THEN [bytes |-> <<>>, panicked |-> TRUE]
    ELSE encode_uleb128(AddOne(data))

(***************************************************************************)
(* decode.rs: LEB128 readers over a byte sequence and a cursor position    *)
(* (0-based).  A reader's outcome is ok (FALSE: it panicked), the value    *)
(* and the position after the bytes it consumed.                           *)
(***************************************************************************)
Failed == [ok |-> FALSE, val |-> <<>>, pos |-> 0]

RECURSIVE decode_uleb128_loop(_, _, _, _)
decode_uleb128_loop(bytes, pos, result, shift) ==
    IF pos >= Len(bytes) THEN Failed              \* read_exact fails
    ELSE IF shift >= 32 /\ build = "debug" THEN Failed   \* shift overflow
    ELSE
        LET b == bytes[pos + 1]
            result2 == BitOr(result, Shl(Num(b % 128, 32), shift % 32))
        IN  IF b < 128 THEN [ok |-> TRUE, val |-> result2, pos |-> pos + 1]
            ELSE decode_uleb128_loop(bytes, pos + 1, result2, shift + 7)

decode_uleb128(bytes, pos) == decode_uleb128_loop(bytes, pos, Zeros(32), 0)

\* decode_uleb128(r) as i32 - 1: the subtraction overflows at i32::MIN
decode_uleb128p1(bytes, pos) ==
    LET u == decode_uleb128(bytes, pos)
    IN  IF ~u.ok THEN u
        ELSE IF u.val = I32Min /\ build = "debug" THEN Failed
        ELSE [u EXCEPT !.val = SubOne(u.val)]

\* (result << k) >> k on an i32
SignExtendFrom(result, k) == Sar(Shl(result, k), k)

decode_sleb128(bytes, pos) ==
    IF pos >= Len(bytes) THEN Failed
    ELSE LET b1 == bytes[pos + 1]
             r1 == Num(b1, 32)
    IN  IF b1 <= 127
        THEN [ok |-> TRUE, val |-> SignExtendFrom(r1, 25), pos |-> pos + 1]
        ELSE IF pos + 1 >= Len(bytes) THEN Failed
        ELSE LET b2 == bytes[pos + 2]
                 r2 == BitOr(Num(b1 % 128, 32), Shl(Num(b2 % 128, 32), 7))
        IN  IF b2 <= 127
            THEN [ok |-> TRUE, val |-> SignExtendFrom(r2, 18), pos |-> pos + 2]
            ELSE IF pos + 2 >= Len(bytes) THEN Failed
            ELSE LET b3 == bytes[pos + 3]
                     r3 == BitOr(r2, Shl(Num(b3 % 128, 32), 14))
            IN  IF b3 <= 127
                THEN [ok |-> TRUE, val |-> SignExtendFrom(r3, 11), pos |-> pos + 3]
                ELSE IF pos + 3 >= Len(bytes) THEN Failed
                ELSE LET b4 == bytes[pos + 4]
                         r4 == BitOr(r3, Shl(Num(b4 % 128, 32), 21))
                IN  IF b4 <= 127
                    THEN [ok |-> TRUE, val |-> SignExtendFrom(r4, 4), pos |-> pos + 4]
                    ELSE IF pos + 4 >= Len(bytes) THEN Failed
                    ELSE LET b5 == bytes[pos + 5]
                             r5 == BitOr(r4, Shl(Num(b5, 32), 28))
                    IN  [ok |-> TRUE, val |-> r5, pos |-> pos + 5]

(***************************************************************************)
(* decode.rs / encode.rs: fixed- and packed-width primitives.              *)
(***************************************************************************)
\* r.read_exact of n bytes, .expect()ed: the bytes, or a panic at end of input
ReadExact(bytes, pos, n) ==
    IF pos + n <= Len(bytes)
    THEN [ok |-> TRUE, val |-> SubSeq(bytes, pos + 1, pos + n), pos |-> pos + n]
    ELSE Failed

\* casts between integer widths (w in bits)
SignExtend(b, w) == b \o [i \in 1..(w \div 8 - Len(b)) |-> IF IsNeg(b) THEN 255 ELSE 0]
ZeroExtend(b, w) == b \o [i \in 1..(w \div 8 - Len(b)) |-> 0]
Truncate(b, w) == SubSeq(b, 1, w \div 8)

\* `as f32` (frac = 23, ebits = 8) and `as f64` (52, 11) of an unsigned
\* integer of the same width: the IEEE-754 pattern of its value, rounded to
\* nearest, ties to even
IntToFloat(b, frac, ebits) ==
    LET p == Bits(b)
        h == Len(p) - LeadingRun(p, 0)
        e == h - 1
        drop == IF e > frac THEN e - frac ELSE 0
        f == [j \in 1..frac |-> IF j + e - frac >= 1 THEN p[j + e - frac] ELSE 0]
        guard == IF drop >= 1 THEN p[drop] ELSE 0
        sticky == \E i \in 1..(drop - 1) : p[i] = 1
        pattern == Bytes(f \o NatBits(2 ^ (ebits - 1) - 1 + e, ebits) \o <<0>>)
    IN  IF h = 0 THEN b
        ELSE IF guard = 1 /\ (sticky \/ f[1] = 1) THEN AddOne(pattern)
        ELSE pattern

decode_nbytes_unsigned(bytes, pos, n) ==
    LET r == ReadExact(bytes, pos, n)
    IN  IF n > 8 \/ ~r.ok THEN Failed ELSE [r EXCEPT !.val = ZeroExtend(r.val, 64)]

\* result <<= 8 - n; result >>= 8 - n: the shift counts are 8 - n bits
decode_nbytes_signed(bytes, pos, n) ==
    LET r == ReadExact(bytes, pos, n)
    IN  IF n > 8 \/ ~r.ok THEN Failed
        ELSE [r EXCEPT !.val = Sar(Shl(ZeroExtend(r.val, 64), 8 - n), 8 - n)]

\* result <<= 4 - n; return result as f32: the value is the f32's bit pattern
decode_nbytes_as_f32(bytes, pos, n) ==
    LET r == ReadExact(bytes, pos, n)
    IN  IF n > 4 \/ ~r.ok THEN Failed
        ELSE [r EXCEPT !.val = IntToFloat(Shl(ZeroExtend(r.val, 32), 4 - n), 23, 8)]

decode_nbytes_as_f64(bytes, pos, n) ==
    LET r == ReadExact(bytes, pos, n)
    IN  IF n > 8 \/ ~r.ok THEN Failed
        ELSE [r EXCEPT !.val = IntToFloat(Shl(ZeroExtend(r.val, 64), 8 - n), 52, 11)]

\* decode_u8, and decode_i8 which casts it: the value keeps its byte
decode_u8(bytes, pos) == ReadExact(bytes, pos, 1)

\* data.to_le_bytes()[0..num]
encode_nbytes(num, data) == SubSeq(data, 1, num)
\* data >>= W - num * 8 first
encode_nbytes_for_float(num, data) == SubSeq(Shr(data, 32 - num * 8), 1, num)
encode_nbytes_for_double(num, data) == SubSeq(Shr(data, 64 - num * 8), 1, num)

RECURSIVE size_uleb128_loop(_, _)
\* the panic arm (0) is dead for a u32: five shifts by 7 clear it
size_uleb128_loop(data, bytes_written) ==
    LET shifted == Shr(data, 7)
        written == bytes_written + 1
    IN  IF shifted = Zeros(32) THEN written
        ELSE IF written > 4 THEN 0
        ELSE size_uleb128_loop(shifted, written)

size_uleb128(data) == size_uleb128_loop(data, 0)

(***************************************************************************)
(* The LEB128 round trip: an argument is encoded into an empty sink, and   *)
(* the bytes written are decoded from position 0 (encode.rs tests test1,   *)
(* test11016).                                                             *)
(***************************************************************************)
MaxSmall == 130

\* 32-bit arguments: the small values, 11016, and around every power of two
U32Samples ==
    {Num(n, 32) : n \in 0..MaxSmall} \cup {Num(11016, 32)}
    \cup {OneBit(k, 32) : k \in 0..31}
    \cup {LowOnes(k, 32) : k \in 1..32}
    \cup {AddOne(OneBit(k, 32)) : k \in 1..31}

\* the same patterns and their complements, read as i32
I32Samples == U32Samples \cup {BitNot(b) : b \in U32Samples}

\* the uleb128p1 domain: -1 and the non-negative i32
P1Samples == {b \in U32Samples : ~IsNeg(b)} \cup {Ones(32)}

\* encodings longer than five bytes: the continuation bit is set on each of
\* the first five bytes; the input then ends, or goes on with a last byte, or
\* with one more continuation byte and a last byte
LongLebWires ==
    {<<a, b, 128, c, d>> \o t : a \in {128, 255}, b \in {128, 255},
        c \in {128, 255}, d \in {128, 129, 255},
        t \in {<<>>, <<0>>, <<1>>, <<127>>, <<128, 0>>, <<255, 1>>}}

\* terminated encodings of one to five bytes: continuation bytes, then a
\* last byte without the continuation bit
TerminatedLebWires ==
    UNION {{more \o <<last>> : more \in [1..n -> {128, 129, 255}],
                               last \in {0, 1, 15, 16, 127}} :
           n \in 0..4}

LebIdle == op = "none" /\ x = <<>> /\ enc = [bytes |-> <<>>, panicked |-> FALSE] /\ dec = Failed
WidthIdle == kind = "none" /\ v = <<>> /\ rb = 0 /\ packed = <<>> /\ unpacked = Failed
RecIdle ==
    /\ rkind = "none" /\ wire = <<>> /\ rec = Failed /\ sz = 0
    /\ outBytes = <<>> /\ buf = <<>> /\ rec2 = Failed
FileIdle == open_err = 0 /\ file = <<>> /\ dex = Failed /\ ser = <<>>
BuilderIdle == builder = <<>> /\ model = Failed
InsnIdle ==
    /\ input = <<>> /\ insns_size = 0 /\ units = <<>> /\ ipos = 0 /\ decoded = <<>> /\ ends = <<>>
    /\ emitted = <<>> /\ sizes = <<>>

InitLeb ==
    /\ build \in {"debug", "release"}
    /\ pc = "start"
    /\ WidthIdle /\ RecIdle /\ FileIdle /\ BuilderIdle /\ InsnIdle
    /\ op \in {"uleb128", "sleb128", "uleb128p1", "uleb128_wire", "sleb128_wire",
               "uleb128_reencode"}
    /\ x \in CASE op = "uleb128" -> U32Samples
               [] op = "sleb128" -> I32Samples
               [] op = "uleb128p1" -> P1Samples
               [] OTHER -> {<<>>}
    /\ enc = [bytes |-> <<>>, panicked |-> FALSE]
    /\ dec = Failed

EncodeUleb128 ==
    /\ pc = "start" /\ op = "uleb128"
    /\ enc' = encode_uleb128(x)
    /\ pc' = "encoded"
    /\ UNCHANGED <<build, op, x, dec, widthVars, recVars, fileVars, builderVars, insnVars>>

EncodeSleb128 ==
    /\ pc = "start" /\ op = "sleb128"
    /\ enc' = encode_sleb128(x)
    /\ pc' = "encoded"
    /\ UNCHANGED <<build, op, x, dec, widthVars, recVars, fileVars, builderVars, insnVars>>

EncodeUleb128p1 ==
    /\ pc = "start" /\ op = "uleb128p1"
    /\ enc' = encode_uleb128p1(x)
    /\ pc' = "encoded"
    /\ UNCHANGED <<build, op, x, dec, widthVars, recVars, fileVars, builderVars, insnVars>>

DecodeUleb128 ==
    /\ pc = "encoded" /\ op = "uleb128" /\ ~enc.panicked
    /\ dec' = decode_uleb128(enc.bytes, 0)
    /\ pc' = "decoded"
    /\ UNCHANGED <<build, op, x, enc, widthVars, recVars, fileVars, builderVars, insnVars>>

DecodeSleb128 ==
    /\ pc = "encoded" /\ op = "sleb128" /\ ~enc.panicked
    /\ dec' = decode_sleb128(enc.bytes, 0)
    /\ pc' = "decoded"
    /\ UNCHANGED <<build, op, x, enc, widthVars, recVars, fileVars, builderVars, insnVars>>

DecodeUleb128p1 ==
    /\ pc = "encoded" /\ op = "uleb128p1" /\ ~enc.panicked
    /\ dec' = decode_uleb128p1(enc.bytes, 0)
    /\ pc' = "decoded"
    /\ UNCHANGED <<build, op, x, enc, widthVars, recVars, fileVars, builderVars, insnVars>>

\* a reader positioned on bytes that no encoder of this program wrote: the
\* decoder is called on them directly, as the record decoders call it
DecodeUleb128Wire ==
    /\ pc = "start" /\ op = "uleb128_wire"
    /\ \E raw \in LongLebWires :
          /\ enc' = [bytes |-> raw, panicked |-> FALSE]
          /\ dec' = decode_uleb128(raw, 0)
    /\ pc' = "decoded"
    /\ UNCHANGED <<build, op, x, widthVars, recVars, fileVars, builderVars, insnVars>>

DecodeSleb128Wire ==
    /\ pc = "start" /\ op = "sleb128_wire"
    /\ \E raw \in LongLebWires :
          /\ enc' = [bytes |-> raw, panicked |-> FALSE]
          /\ dec' = decode_sleb128(raw, 0)
    /\ pc' = "decoded"
    /\ UNCHANGED <<build, op, x, widthVars, recVars, fileVars, builderVars, insnVars>>

\* a terminated encoding found in a file is decoded, and the value written
\* back as the record encoders write it; x holds the bytes read
DecodeUleb128Terminated ==
    /\ pc = "start" /\ op = "uleb128_reencode"
    /\ \E raw \in TerminatedLebWires :
          /\ x' = raw
          /\ dec' = decode_uleb128(raw, 0)
    /\ pc' = "decoded"
    /\ UNCHANGED <<build, op, enc, widthVars, recVars, fileVars, builderVars, insnVars>>

ReencodeUleb128 ==
    /\ pc = "decoded" /\ op = "uleb128_reencode" /\ dec.ok
    /\ enc' = encode_uleb128(dec.val)
    /\ pc' = "reencoded"
    /\ UNCHANGED <<build, op, x, dec, widthVars, recVars, fileVars, builderVars, insnVars>>

NextLeb ==
    \/ DecodeUleb128Terminated
    \/ ReencodeUleb128
    \/ DecodeUleb128Wire
    \/ DecodeSleb128Wire
    \/ EncodeUleb128
    \/ EncodeSleb128
    \/ EncodeUleb128p1
    \/ DecodeUleb128
    \/ DecodeSleb128
    \/ DecodeUleb128p1

SpecLeb == InitLeb /\ [][NextLeb]_vars

(***************************************************************************)
(* encoded_value_utils.rs: the minimum byte width of a packed value.       *)
(***************************************************************************)
\* without the extra bit for a positive value whose top payload bit is set
get_required_bytes_signed_nobump(data) ==
    IF IsNeg(data)
    THEN ((64 - leading_ones(data) + 1) + 7) \div 8
    ELSE LET required_bits == 64 - leading_zeros(data)
         IN  IF required_bits = 0 THEN 1 ELSE (required_bits + 7) \div 8

get_required_bytes_signed(data) ==
    IF IsNeg(data)
    THEN ((64 - leading_ones(data) + 1) + 7) \div 8
    ELSE LET required_bits == 64 - leading_zeros(data)
         IN  IF required_bits = 0 THEN 1
             ELSE IF required_bits % 8 = 0 THEN ((required_bits + 1) + 7) \div 8
             ELSE (required_bits + 7) \div 8

\* rounding the bit count down to whole bytes, plus one
get_required_bytes_unsigned_floor(data) ==
    LET required_bits == 64 - leading_zeros(data)
    IN  IF required_bits = 0 THEN 1 ELSE (required_bits \div 8) + 1

get_required_bytes_unsigned(data) ==
    LET required_bits == 64 - leading_zeros(data)
    IN  IF required_bits = 0 THEN 1 ELSE (required_bits + 7) \div 8

\* counting the zero bits from the top of the pattern, as for an integer
get_required_bytes_for_f32_leading(bits) ==
    LET required_bits == 32 - leading_zeros(bits)
    IN  IF required_bits = 0 THEN 1 ELSE (required_bits + 7) \div 8

\* the argument is data.to_bits()
get_required_bytes_for_f32(bits) ==
    LET required_bits == 32 - trailing_zeros(bits)
    IN  IF required_bits = 0 THEN 1 ELSE (required_bits + 7) \div 8

get_required_bytes_for_f64(bits) ==
    LET required_bits == 64 - trailing_zeros(bits)
    IN  IF required_bits = 0 THEN 1 ELSE (required_bits + 7) \div 8

\* 64-bit arguments: the small values and around every power of two, with
\* their complements (the negative i64)
U64Samples ==
    {Num(n, 64) : n \in 0..MaxSmall} \cup {Num(239, 64), Num(36420, 64)}
    \cup {OneBit(k, 64) : k \in 0..63}
    \cup {LowOnes(k, 64) : k \in 1..64}
    \cup {AddOne(OneBit(k, 64)) : k \in 1..63}

I64Samples == U64Samples \cup {BitNot(b) : b \in U64Samples}

\* float bit patterns of width w: every count of trailing zero bits, with
\* the bits above the lowest set one all set, clear, or only the top one set
FloatSamples(w) ==
    {Zeros(w)} \cup {OneBit(k, w) : k \in 0..(w - 1)}
    \cup {BitNot(LowOnes(k, w)) : k \in 0..(w - 1)}
    \cup {BitOr(OneBit(k, w), OneBit(w - 2, w)) : k \in 0..(w - 1)}

\* 66048.0f32.to_bits() = 0x47810000, the value of the unit test
F32Bits66048 == Num(1199636480, 32)

InitWidth ==
    /\ build \in {"debug", "release"}
    /\ pc = "start"
    /\ LebIdle /\ RecIdle /\ FileIdle /\ BuilderIdle /\ InsnIdle
    /\ kind \in {"signed", "unsigned", "f32", "f64"}
    /\ v \in CASE kind = "signed" -> I64Samples
               [] kind = "unsigned" -> U64Samples
               [] kind = "f32" -> FloatSamples(32) \cup {F32Bits66048}
               [] kind = "f64" -> FloatSamples(64)
    /\ rb = 0
    /\ packed = <<>>
    /\ unpacked = Failed

RequiredBytesSigned ==
    /\ pc = "start" /\ kind = "signed"
    /\ rb' = get_required_bytes_signed(v)
    /\ pc' = "sized"
    /\ UNCHANGED <<build, kind, v, packed, unpacked, lebVars, recVars, fileVars, builderVars, insnVars>>

RequiredBytesUnsigned ==
    /\ pc = "start" /\ kind = "unsigned"
    /\ rb' = get_required_bytes_unsigned(v)
    /\ pc' = "sized"
    /\ UNCHANGED <<build, kind, v, packed, unpacked, lebVars, recVars, fileVars, builderVars, insnVars>>

RequiredBytesF32 ==
    /\ pc = "start" /\ kind = "f32"
    /\ rb' = get_required_bytes_for_f32(v)
    /\ pc' = "sized"
    /\ UNCHANGED <<build, kind, v, packed, unpacked, lebVars, recVars, fileVars, builderVars, insnVars>>

RequiredBytesF64 ==
    /\ pc = "start" /\ kind = "f64"
    /\ rb' = get_required_bytes_for_f64(v)
    /\ pc' = "sized"
    /\ UNCHANGED <<build, kind, v, packed, unpacked, lebVars, recVars, fileVars, builderVars, insnVars>>

\* EncodedValue::serialize_value_signed after the header byte:
\* encode_nbytes(w, rb, v as u64)
PackSigned ==
    /\ pc = "sized" /\ kind = "signed"
    /\ packed' = encode_nbytes(rb, v)
    /\ pc' = "packed"
    /\ UNCHANGED <<build, kind, v, rb, unpacked, lebVars, recVars, fileVars, builderVars, insnVars>>

\* EncodedValue::serialize, ValueFloat: encode_nbytes_for_float(w, rb, v.to_bits())
PackFloat ==
    /\ pc = "sized" /\ kind = "f32"
    /\ packed' = encode_nbytes_for_float(rb, v)
    /\ pc' = "packed"
    /\ UNCHANGED <<build, kind, v, rb, unpacked, lebVars, recVars, fileVars, builderVars, insnVars>>

\* EncodedValue::serialize, ValueDouble
PackDouble ==
    /\ pc = "sized" /\ kind = "f64"
    /\ packed' = encode_nbytes_for_double(rb, v)
    /\ pc' = "packed"
    /\ UNCHANGED <<build, kind, v, rb, unpacked, lebVars, recVars, fileVars, builderVars, insnVars>>

\* EncodedValue::deserialize on the payload: value_arg + 1 bytes
UnpackSigned ==
    /\ pc = "packed" /\ kind = "signed"
    /\ unpacked' = decode_nbytes_signed(packed, 0, Len(packed))
    /\ pc' = "unpacked"
    /\ UNCHANGED <<build, kind, v, rb, packed, lebVars, recVars, fileVars, builderVars, insnVars>>

UnpackFloat ==
    /\ pc = "packed" /\ kind = "f32"
    /\ unpacked' = decode_nbytes_as_f32(packed, 0, Len(packed))
    /\ pc' = "unpacked"
    /\ UNCHANGED <<build, kind, v, rb, packed, lebVars, recVars, fileVars, builderVars, insnVars>>

UnpackDouble ==
    /\ pc = "packed" /\ kind = "f64"
    /\ unpacked' = decode_nbytes_as_f64(packed, 0, Len(packed))
    /\ pc' = "unpacked"
    /\ UNCHANGED <<build, kind, v, rb, packed, lebVars, recVars, fileVars, builderVars, insnVars>>

NextWidth ==
    \/ RequiredBytesSigned
    \/ RequiredBytesUnsigned
    \/ RequiredBytesF32
    \/ RequiredBytesF64
    \/ PackSigned
    \/ PackFloat
    \/ PackDouble
    \/ UnpackSigned
    \/ UnpackFloat
    \/ UnpackDouble

SpecWidth == InitWidth /\ [][NextWidth]_vars

(***************************************************************************)
(* dex_structs.rs: EncodedValue, EncodedArray, EncodedAnnotation.          *)
(* A value is [tag, val]: val holds the variant's payload as little-endian *)
(* bytes of the variant's Rust type (f32/f64 as their bit patterns, which  *)
(* no decoder here makes NaN or -0.0, so pattern equality is ==).          *)
(***************************************************************************)
get_type_code ==
    [ValueByte |-> 0, ValueShort |-> 2, ValueChar |-> 3, ValueInt |-> 4,
     ValueLong |-> 6, ValueFloat |-> 16, ValueDouble |-> 17,
     ValueMethodType |-> 21, ValueMethodHandle |-> 22, ValueString |-> 23,
     ValueType |-> 24, ValueField |-> 25, ValueMethod |-> 26, ValueEnum |-> 27,
     ValueArray |-> 28, ValueAnnotation |-> 29, ValueNull |-> 30,
     ValueBoolean |-> 31]

\* the variants decoded with decode_nbytes_unsigned(..) as u32
IndexTags ==
    {"ValueMethodType", "ValueMethodHandle", "ValueString", "ValueType",
     "ValueField", "ValueMethod", "ValueEnum"}

\* what follows a read that did not panic: F gets the read's outcome
Bind(r, F(_)) == IF r.ok THEN F(r) ELSE Failed
\* the value of a read that did not panic, rewritten by F
Map(r, F(_)) == IF r.ok THEN [r EXCEPT !.val = F(r.val)] ELSE Failed

\* a decoded primitive r wrapped as variant tag, cast to w bits
Value(tag, r, w) == Map(r, LAMBDA d : [tag |-> tag, val |-> Truncate(d, w)])

\* an assertion compiled out
assert_eq_unchecked(left, right) == TRUE

\* assert_eq!(value_arg, 0): FALSE is the panic
assert_eq(left, right) == left = right

RECURSIVE EncodedValue_deserialize(_, _)
RECURSIVE EncodedArray_deserialize(_, _)
RECURSIVE EncodedAnnotation_deserialize(_, _)
RECURSIVE DeserializeValues(_, _, _, _)
RECURSIVE DeserializeElements(_, _, _, _)

EncodedValue_deserialize(bytes, pos) ==
    LET hb == decode_u8(bytes, pos)
        value_byte == hb.val[1]
        value_arg == (value_byte \div 32) % 8
        value_type == value_byte % 32
        n == value_arg + 1
        p == hb.pos
    IN  IF ~hb.ok THEN Failed
        ELSE CASE value_type = 0 ->
                    IF ~assert_eq(value_arg, 0) THEN Failed
                    ELSE Value("ValueByte", decode_u8(bytes, p), 8)
               [] value_type = 2 -> Value("ValueShort", decode_nbytes_signed(bytes, p, n), 16)
               [] value_type = 3 -> Value("ValueChar", decode_nbytes_unsigned(bytes, p, n), 16)
               [] value_type = 4 -> Value("ValueInt", decode_nbytes_signed(bytes, p, n), 32)
               [] value_type = 6 -> Value("ValueLong", decode_nbytes_signed(bytes, p, n), 64)
               [] value_type = 16 -> Value("ValueFloat", decode_nbytes_as_f32(bytes, p, n), 32)
               [] value_type = 17 -> Value("ValueDouble", decode_nbytes_as_f64(bytes, p, n), 64)
               [] value_type \in 21..27 ->
                    Value(CHOOSE t \in IndexTags : get_type_code[t] = value_type,
                          decode_nbytes_unsigned(bytes, p, n), 32)
               [] value_type = 28 ->
                    IF ~assert_eq(value_arg, 0) THEN Failed
                    ELSE Map(EncodedArray_deserialize(bytes, p),
                             LAMBDA a : [tag |-> "ValueArray", val |-> a])
               [] value_type = 29 ->
                    IF ~assert_eq(value_arg, 0) THEN Failed
                    ELSE Map(EncodedAnnotation_deserialize(bytes, p),
                             LAMBDA a : [tag |-> "ValueAnnotation", val |-> a])
               [] value_type = 30 ->
                    IF ~assert_eq(value_arg, 0) THEN Failed
                    ELSE [ok |-> TRUE, val |-> [tag |-> "ValueNull", val |-> <<>>], pos |-> p]
               [] value_type = 31 ->
                    [ok |-> TRUE, val |-> [tag |-> "ValueBoolean", val |-> value_arg # 0], pos |-> p]
               [] OTHER -> Failed

\* for _ in 0..size { values.push(EncodedValue::deserialize(r)) }
DeserializeValues(bytes, pos, n, acc) ==
    IF n = 0 THEN [ok |-> TRUE, val |-> acc, pos |-> pos]
    ELSE Bind(EncodedValue_deserialize(bytes, pos),
              LAMBDA e : DeserializeValues(bytes, e.pos, n - 1, Append(acc, e.val)))

EncodedArray_deserialize(bytes, pos) ==
    Map(Bind(decode_uleb128(bytes, pos),
             LAMBDA size : DeserializeValues(bytes, size.pos, ToNat(size.val), <<>>)),
        LAMBDA values : [values |-> values])

AnnotationElement_deserialize(bytes, pos) ==
    Bind(decode_uleb128(bytes, pos),
         LAMBDA name_idx :
            Map(EncodedValue_deserialize(bytes, name_idx.pos),
                LAMBDA value : [name_idx |-> name_idx.val, value |-> value]))

DeserializeElements(bytes, pos, n, acc) ==
    IF n = 0 THEN [ok |-> TRUE, val |-> acc, pos |-> pos]
    ELSE Bind(AnnotationElement_deserialize(bytes, pos),
              LAMBDA e : DeserializeElements(bytes, e.pos, n - 1, Append(acc, e.val)))

EncodedAnnotation_deserialize(bytes, pos) ==
    Bind(decode_uleb128(bytes, pos),
         LAMBDA type_idx :
            Map(Bind(decode_uleb128(bytes, type_idx.pos),
                     LAMBDA size : DeserializeElements(bytes, size.pos, ToNat(size.val), <<>>)),
                LAMBDA elements : [type_idx |-> type_idx.val, elements |-> elements]))

EncodedArrayItem_deserialize(bytes, pos) ==
    Map(EncodedArray_deserialize(bytes, pos), LAMBDA value : [value |-> value])

AnnotationItem_deserialize(bytes, pos) ==
    Bind(decode_u8(bytes, pos),
         LAMBDA visibility :
            Map(EncodedAnnotation_deserialize(bytes, visibility.pos),
                LAMBDA annotation : [visibility |-> visibility.val, annotation |-> annotation]))

RECURSIVE EncodedValue_serialize(_)
RECURSIVE EncodedArray_serialize(_)
RECURSIVE EncodedAnnotation_serialize(_)
RECURSIVE SerializeValues(_)
RECURSIVE SerializeElements(_)
RECURSIVE EncodedValue_size(_)
RECURSIVE EncodedArray_size(_)
RECURSIVE EncodedAnnotation_size(_)
RECURSIVE SizeValues(_)
RECURSIVE SizeElements(_)

\* ((rb - 1) << 5) | type_code: the two fields do not overlap
serialize_value_signed(self, data) ==
    LET nbytes == get_required_bytes_signed(data)
    IN  <<(nbytes - 1) * 32 + get_type_code[self.tag]>> \o encode_nbytes(nbytes, data)

serialize_value_unsigned(self, data) ==
    LET nbytes == get_required_bytes_unsigned(data)
    IN  <<(nbytes - 1) * 32 + get_type_code[self.tag]>> \o encode_nbytes(nbytes, data)

EncodedValue_serialize(self) ==
    LET t == self.tag
        code == get_type_code[t]
    IN  CASE t \in {"ValueByte", "ValueShort", "ValueInt", "ValueLong"} ->
                serialize_value_signed(self, SignExtend(self.val, 64))
          [] t \in {"ValueChar"} \cup IndexTags ->
                serialize_value_unsigned(self, ZeroExtend(self.val, 64))
          [] t = "ValueFloat" ->
                LET nbytes == get_required_bytes_for_f32(self.val)
                IN  <<(nbytes - 1) * 32 + code>> \o encode_nbytes_for_float(nbytes, self.val)
          [] t = "ValueDouble" ->
                LET nbytes == get_required_bytes_for_f64(self.val)
                IN  <<(nbytes - 1) * 32 + code>> \o encode_nbytes_for_double(nbytes, self.val)
          [] t = "ValueArray" -> <<code>> \o EncodedArray_serialize(self.val)
          [] t = "ValueAnnotation" -> <<code>> \o EncodedAnnotation_serialize(self.val)
          [] t = "ValueNull" -> <<code>>
          [] t = "ValueBoolean" -> IF self.val THEN <<32 + code>> ELSE <<code>>

SerializeValues(values) ==
    IF Len(values) = 0 THEN <<>>
    ELSE EncodedValue_serialize(Head(values)) \o SerializeValues(Tail(values))

\* self.values.len() as u32
EncodedArray_serialize(self) ==
    encode_uleb128(Num(Len(self.values), 32)).bytes \o SerializeValues(self.values)

AnnotationElement_serialize(self) ==
    encode_uleb128(self.name_idx).bytes \o EncodedValue_serialize(self.value)

SerializeElements(elements) ==
    IF Len(elements) = 0 THEN <<>>
    ELSE AnnotationElement_serialize(Head(elements)) \o SerializeElements(Tail(elements))

EncodedAnnotation_serialize(self) ==
    encode_uleb128(self.type_idx).bytes
        \o encode_uleb128(Num(Len(self.elements), 32)).bytes
        \o SerializeElements(self.elements)

EncodedArrayItem_serialize(self) == EncodedArray_serialize(self.value)

AnnotationItem_serialize(self) ==
    self.visibility \o EncodedAnnotation_serialize(self.annotation)

EncodedValue_size(self) ==
    LET t == self.tag
    IN  CASE t \in {"ValueByte", "ValueNull", "ValueBoolean"} -> 1
          [] t = "ValueArray" -> 1 + EncodedArray_size(self.val)
          [] t = "ValueAnnotation" -> 1 + EncodedAnnotation_size(self.val)
          [] t \in {"ValueShort", "ValueInt", "ValueLong"} ->
                1 + get_required_bytes_signed(SignExtend(self.val, 64))
          [] t \in {"ValueChar"} \cup IndexTags ->
                1 + get_required_bytes_unsigned(ZeroExtend(self.val, 64))
          [] t = "ValueFloat" -> 1 + get_required_bytes_for_f32(self.val)
          [] t = "ValueDouble" -> 1 + get_required_bytes_for_f64(self.val)

SizeValues(values) ==
    IF Len(values) = 0 THEN 0
    ELSE EncodedValue_size(Head(values)) + SizeValues(Tail(values))

EncodedArray_size(self) ==
    size_uleb128(Num(Len(self.values), 32)) + SizeValues(self.values)

AnnotationElement_size(self) ==
    size_uleb128(self.name_idx) + EncodedValue_size(self.value)

SizeElements(elements) ==
    IF Len(elements) = 0 THEN 0
    ELSE AnnotationElement_size(Head(elements)) + SizeElements(Tail(elements))

EncodedAnnotation_size(self) ==
    size_uleb128(self.type_idx)
        + size_uleb128(Num(Len(self.elements), 32))
        + SizeElements(self.elements)

EncodedArrayItem_size(self) == EncodedArray_size(self.value)

AnnotationItem_size(self) == 1 + EncodedAnnotation_size(self.annotation)

(***************************************************************************)
(* dex_structs.rs: Header.  A header is a function from field name to the  *)
(* field's bytes.                                                          *)
(***************************************************************************)
HeaderFields ==
    <<"magic", "checksum", "signature", "file_size", "header_size",
      "endian_tag", "link_size", "link_off", "map_off", "string_ids_size",
      "string_ids_off", "type_ids_size", "type_ids_off", "proto_ids_size",
      "proto_ids_off", "field_ids_size", "field_ids_off", "method_ids_size",
      "method_ids_off", "class_defs_size", "class_defs_off", "data_size",
      "data_off">>

\* [u8; 8], [u8; 20], the u16 pair that opens a MapItem, and u32 for the rest
FieldWidth(f) ==
    CASE f = "magic" -> 8
      [] f = "signature" -> 20
      [] f \in {"type_code", "unused"} -> 2
      [] OTHER -> 4

RECURSIVE ReadFields(_, _, _, _)
\* the fields read one after another, each read .expect()ed
ReadFields(bytes, pos, fields, acc) ==
    IF Len(fields) = 0 THEN [ok |-> TRUE, val |-> acc, pos |-> pos]
    ELSE LET r == ReadExact(bytes, pos, FieldWidth(Head(fields)))
         IN  IF ~r.ok THEN Failed
             ELSE ReadFields(bytes, r.pos, Tail(fields), acc @@ (Head(fields) :> r.val))

RECURSIVE WriteFields(_, _)
WriteFields(self, fields) ==
    IF Len(fields) = 0 THEN <<>>
    ELSE self[Head(fields)] \o WriteFields(self, Tail(fields))

Header_deserialize(bytes, pos) == ReadFields(bytes, pos, HeaderFields, <<>>)
Header_serialize(self) == WriteFields(self, HeaderFields)
Header_size(self) == ToNat(self.header_size)

\* r.read_until(0, ..): up to and including the first 0, or to the end of input
StringDataItem_deserialize(bytes, pos) ==
    Bind(decode_uleb128(bytes, pos),
         LAMBDA size :
            LET zeros == {i \in (size.pos + 1)..Len(bytes) : bytes[i] = 0}
                end == IF zeros = {} THEN Len(bytes)
                       ELSE CHOOSE i \in zeros : \A j \in zeros : i <= j
            IN  [ok |-> TRUE,
                 val |-> [utf16_size |-> size.val, data |-> SubSeq(bytes, size.pos + 1, end)],
                 pos |-> end])
StringDataItem_serialize(self) == encode_uleb128(self.utf16_size).bytes \o self.data
StringDataItem_size(self) == size_uleb128(self.utf16_size) + Len(self.data)

(***************************************************************************)
(* Well-formed inputs: encoded values in their shortest form, arrays and   *)
(* annotations of them, and small DEX files laid out by their own header   *)
(* and map list.                                                           *)
(***************************************************************************)
MaxArrayLen == 2
MaxStrings == 2
MaxTypes == 1

SampleBytes == {0, 1, 128, 255}

\* payloads of n bytes: a repeated low byte under a high byte
Payloads(n) ==
    {[i \in 1..n |-> IF i = n THEN hi ELSE lo] : lo \in SampleBytes, hi \in SampleBytes}

\* shortest forms: no redundant sign byte, no leading zero byte, no trailing
\* (low-order) zero byte of a float
MinimalSigned(p) ==
    LET n == Len(p)
    IN  n = 1 \/ ~((p[n] = 0 /\ p[n - 1] < 128) \/ (p[n] = 255 /\ p[n - 1] >= 128))
MinimalUnsigned(p) == Len(p) = 1 \/ p[Len(p)] # 0
MinimalFloat(p) == Len(p) = 1 \/ p[1] # 0

\* header byte (value_arg << 5 | value_type) and payload
PackedWires(code, maxn, Minimal(_)) ==
    UNION {{<<(n - 1) * 32 + code>> \o p : p \in {q \in Payloads(n) : Minimal(q)}} :
            n \in 1..maxn}

ScalarWires ==
    {<<0>> \o p : p \in Payloads(1)}
        \cup PackedWires(2, 2, MinimalSigned) \cup PackedWires(3, 2, MinimalUnsigned)
        \cup PackedWires(4, 4, MinimalSigned) \cup PackedWires(6, 8, MinimalSigned)
        \cup PackedWires(16, 4, MinimalFloat) \cup PackedWires(17, 8, MinimalFloat)
        \cup UNION {PackedWires(c, 4, MinimalUnsigned) : c \in 21..27}
        \cup {<<30>>, <<31>>, <<63>>}

\* what an array or an annotation is filled with
ElementWires == {<<0, 128>>, <<4, 1>>, <<4, 255>>, <<23, 255>>, <<30>>, <<63>>, <<28, 0>>, <<29, 1, 0>>}

RECURSIVE Concat(_)
Concat(ss) == IF Len(ss) = 0 THEN <<>> ELSE Head(ss) \o Concat(Tail(ss))

ArrayWires ==
    UNION {{<<n>> \o Concat(es) : es \in [1..n -> ElementWires]} : n \in 0..MaxArrayLen}

\* type_idx, size, then (name_idx, value) pairs
AnnotationWires ==
    UNION {{t \o <<n>> \o Concat([i \in 1..n |-> <<i>> \o es[i]]) :
                t \in {<<1>>, <<128, 1>>}, es \in [1..n -> ElementWires]} :
            n \in 0..MaxArrayLen}

ValueWires ==
    ScalarWires \cup {<<28>> \o a : a \in ArrayWires} \cup {<<29>> \o a : a \in AnnotationWires}

\* header bytes no value has: a type outside the 18 defined ones under
\* every value_arg, and a value_arg other than 0 on a ValueByte, a
\* ValueArray, a ValueAnnotation or a ValueNull; each followed by bytes
\* enough for any payload
MalformedValueWires ==
    {<<arg * 32 + type, 0, 1, 0, 0, 0, 0, 0, 0>> :
        <<arg, type>> \in ((0..7) \X ((0..31) \ {get_type_code[t] : t \in DOMAIN get_type_code}))
                          \cup ((1..7) \X {0, 28, 29, 30})}

\* utf16_size, the MUTF-8 bytes, the terminating 0
StringDataWires == {<<0, 0>>, <<1, 97, 0>>, <<2, 97, 98, 0>>, <<1, 195, 169, 0>>}

AnnotationItemWires == {<<vis>> \o a : vis \in 0..2, a \in AnnotationWires}

\* a header with the u32 fields named in h, and the fixed fields of a DEX
\* file: the magic "dex\n035\0", header_size 0x70, endian_tag 0x12345678
MakeHeader(h) ==
    [f \in {HeaderFields[i] : i \in 1..Len(HeaderFields)} |->
        CASE f = "magic" -> <<100, 101, 120, 10, 48, 51, 53, 0>>
          [] f = "signature" -> [i \in 1..20 |-> 0]
          [] f = "header_size" -> Num(112, 32)
          [] f = "endian_tag" -> <<120, 86, 52, 18>>
          [] f \in DOMAIN h -> Num(h[f], 32)
          [] OTHER -> Zeros(32)]

Pad4(b) == b \o [i \in 1..((4 - (Len(b) % 4)) % 4) |-> 0]

\* map_item: type u16, unused u16, size u32, offset u32
MapEntry(e) == Num(e[1], 16) \o <<0, 0>> \o Num(e[2], 32) \o Num(e[3], 32)

\* A DEX file: header, string_ids, type_ids, gap bytes of zero padding, and a
\* data section of string data, one optional encoded array item and the map
\* list (entries in offset order), then linkSize bytes of link data.
DexBytes(nStr, nType, gap, arr, linkSize) ==
    LET strOff == 112
        typeOff == strOff + 4 * nStr
        dataOff == typeOff + 4 * nType + gap
        strData == Pad4(Concat([i \in 1..nStr |-> <<1, 96 + i, 0>>]))
        arrOff == dataOff + Len(strData)
        arrData == Pad4(arr)
        mapOff == arrOff + Len(arrData)
        entries ==
            <<<<0, 1, 0>>>>
                \o (IF nStr > 0 THEN <<<<1, nStr, strOff>>>> ELSE <<>>)
                \o (IF nType > 0 THEN <<<<2, nType, typeOff>>>> ELSE <<>>)
                \o (IF nStr > 0 THEN <<<<8194, nStr, dataOff>>>> ELSE <<>>)
                \o (IF Len(arr) > 0 THEN <<<<8197, 1, arrOff>>>> ELSE <<>>)
                \o <<<<4096, 1, mapOff>>>>
        data ==
            strData \o arrData \o Num(Len(entries), 32)
                \o Concat([i \in 1..Len(entries) |-> MapEntry(entries[i])])
        header ==
            MakeHeader(
                [file_size |-> dataOff + Len(data) + linkSize,
                 link_size |-> linkSize,
                 link_off |-> IF linkSize = 0 THEN 0 ELSE dataOff + Len(data),
                 map_off |-> mapOff,
                 string_ids_size |-> nStr,
                 string_ids_off |-> IF nStr = 0 THEN 0 ELSE strOff,
                 type_ids_size |-> nType,
                 type_ids_off |-> IF nType = 0 THEN 0 ELSE typeOff,
                 data_size |-> Len(data),
                 data_off |-> dataOff])
    IN  Header_serialize(header)
            \o Concat([i \in 1..nStr |-> Num(dataOff + 3 * (i - 1), 32)])
            \o Concat([i \in 1..nType |-> Num(i - 1, 32)])
            \o [i \in 1..gap |-> 0]
            \o data
            \o [i \in 1..linkSize |-> 7]

\* padding between the id tables and the data section; link data length
GapSizes == {0, 4, 32}
LinkSizes == {0, 4}

DexFiles ==
    {DexBytes(nStr, nType, gap, arr, linkSize) :
        nStr \in 0..MaxStrings, nType \in 0..MaxTypes, gap \in GapSizes,
        arr \in {<<>>, <<1, 4, 255>>, <<2, 30, 0, 128>>}, linkSize \in LinkSizes}

\* the file with the type_code of its k-th map entry overwritten
PatchTypeCode(bytes, k, code) ==
    LET at == ToNat(SubSeq(bytes, 53, 56)) + 4 + 12 * (k - 1)
    IN  SubSeq(bytes, 1, at) \o Num(code, 16) \o SubSeq(bytes, at + 3, Len(bytes))

\* numbers that are no TypeCode: next to the id codes, between and after the
\* data codes, and the largest u16
UnknownCodes == {9, 4100, 8199, 65535}

\* files whose map names a section of an unknown type: the entry of the
\* encoded array item (the fourth of five) or of the string ids (the second)
UnknownCodeFiles ==
    {PatchTypeCode(DexBytes(1, 0, 0, <<1, 4, 255>>, 0), k, code) :
        k \in {2, 4}, code \in UnknownCodes}

(***************************************************************************)
(* dex_structs.rs: TypeList, and the body of the loop of                   *)
(* deserialize_type_lists (lib.rs).  A TypeItem is its type_idx, two       *)
(* bytes.                                                                  *)
(***************************************************************************)
\* the items of a list, each a u16 little-endian
ReadTypeItems(bytes, pos, count) ==
    IF pos + 2 * count > Len(bytes) THEN Failed
    ELSE [ok |-> TRUE,
          val |-> [k \in 1..count |-> SubSeq(bytes, pos + 2 * k - 1, pos + 2 * k)],
          pos |-> pos + 2 * count]

TypeList_deserialize(bytes, pos) ==
    Bind(ReadExact(bytes, pos, 4),
         LAMBDA size :
            Map(ReadTypeItems(bytes, size.pos, ToNat(size.val)),
                LAMBDA items : [list |-> items]))

TypeList_serialize(self) == Num(Len(self.list), 32) \o Concat(self.list)

TypeList_size(self) == 4 + 2 * Len(self.list)

\* one turn of the loop of deserialize_type_lists: the count, the items, and
\* two more bytes, asserted zero, when the list ended off a 4-byte boundary
deserialize_type_list(bytes, pos) ==
    Bind(TypeList_deserialize(bytes, pos),
         LAMBDA t :
            IF (t.pos - pos) % 4 = 0 THEN t
            ELSE Bind(ReadExact(bytes, t.pos, 2),
                      LAMBDA pad : IF pad.val = <<0, 0>>
                                   THEN [t EXCEPT !.pos = pad.pos] ELSE Failed))

\* the longest type list of the inputs
MaxTypeItems == 3

\* type lists as they lie in a file: the count, the type indices, and the
\* two zero bytes after an odd count
TypeListWires ==
    UNION {{Num(n, 32) \o Concat(items) \o (IF n % 2 = 1 THEN <<0, 0>> ELSE <<>>) :
                items \in [1..n -> {<<0, 0>>, <<5, 0>>, <<255, 255>>}]} :
           n \in 0..MaxTypeItems}

\* (0..count).map(|_| transmute_dex_struct!(T, bytes, i)): count records of
\* width bytes from i on; a slice past the end of bytes panics
ReadItems(bytes, i, count, width) ==
    IF i + count * width > Len(bytes) THEN Failed
    ELSE [ok |-> TRUE,
          val |-> [k \in 1..count |-> SubSeq(bytes, i + (k - 1) * width + 1, i + k * width)],
          pos |-> i + count * width]

(***************************************************************************)
(* dex_structs.rs: CodeItem with its TryItems and its                      *)
(* EncodedCatchHandlerList.  A TryItem is its eight bytes (start_addr,     *)
(* insn_count, handler_off, little-endian); an Option is a sequence of at  *)
(* most one value.                                                         *)
(***************************************************************************)
RECURSIVE size_sleb128_loop(_, _)
\* 0: the panic after a fifth byte
size_sleb128_loop(data, bytes_written) ==
    LET data2 == Sar(data, 7)
        signbit == ((LowByte(data) % 128) \div 64) % 2
        last == (data2 = Zeros(32) /\ signbit = 0) \/ (data2 = Ones(32) /\ signbit = 1)
        written == bytes_written + 1
    IN  IF written > 4 THEN 0
        ELSE IF last THEN written
        ELSE size_sleb128_loop(data2, written)

size_sleb128(data) == size_sleb128_loop(data, 0)

EncodedTypeAddressPair_deserialize(bytes, pos) ==
    Bind(decode_uleb128(bytes, pos),
         LAMBDA t :
            Map(decode_uleb128(bytes, t.pos),
                LAMBDA a : [type_idx |-> t.val, addr |-> a]))

EncodedTypeAddressPair_serialize(self) ==
    encode_uleb128(self.type_idx).bytes \o encode_uleb128(self.addr).bytes

EncodedTypeAddressPair_size(self) == size_uleb128(self.type_idx) + size_uleb128(self.addr)

RECURSIVE DeserializePairs(_, _, _, _)
DeserializePairs(bytes, pos, n, acc) ==
    IF n = 0 THEN [ok |-> TRUE, val |-> acc, pos |-> pos]
    ELSE Bind(EncodedTypeAddressPair_deserialize(bytes, pos),
              LAMBDA e : DeserializePairs(bytes, e.pos, n - 1, Append(acc, e.val)))

\* size.abs() of an i32 that is not i32::MIN
Abs(size) == IF IsNeg(size) THEN ToNat(BitNot(size)) + 1 ELSE ToNat(size)

\* i32::MIN has no absolute value: abs() panics under overflow checks and
\* returns i32::MIN without them, and 0..i32::MIN is an empty range
EncodedCatchHandler_deserialize(bytes, pos) ==
    Bind(decode_sleb128(bytes, pos),
         LAMBDA size :
            IF size.val = I32Min /\ build = "debug" THEN Failed
            ELSE Bind(DeserializePairs(bytes, size.pos,
                                       IF size.val = I32Min THEN 0 ELSE Abs(size.val), <<>>),
                      LAMBDA handlers :
                         IF IsNeg(size.val) \/ size.val = Zeros(32)
                         THEN Map(decode_uleb128(bytes, handlers.pos),
                                  LAMBDA a : [handlers |-> handlers.val,
                                              catch_all_addr |-> <<a>>])
                         ELSE [handlers EXCEPT !.val = [handlers |-> handlers.val,
                                                        catch_all_addr |-> <<>>]]))

\* -(n as sleb128)
Negated(n) == AddOne(BitNot(Num(n, 32)))

EncodedCatchHandler_serialize(self) ==
    IF self.catch_all_addr = <<>>
    THEN encode_sleb128(Num(Len(self.handlers), 32)).bytes
         \o Concat([k \in 1..Len(self.handlers) |->
                        EncodedTypeAddressPair_serialize(self.handlers[k])])
    ELSE encode_sleb128(Negated(Len(self.handlers))).bytes
         \o Concat([k \in 1..Len(self.handlers) |->
                        EncodedTypeAddressPair_serialize(self.handlers[k])])
         \o encode_uleb128(self.catch_all_addr[1]).bytes

RECURSIVE Sum(_)
\* .sum::<usize>()
Sum(ns) == IF Len(ns) = 0 THEN 0 ELSE Head(ns) + Sum(Tail(ns))

EncodedCatchHandler_size(self) ==
    IF self.catch_all_addr = <<>>
    THEN size_sleb128(Num(Len(self.handlers), 32))
         + Sum([k \in 1..Len(self.handlers) |-> EncodedTypeAddressPair_size(self.handlers[k])])
    ELSE size_sleb128(Negated(Len(self.handlers)))
         + Sum([k \in 1..Len(self.handlers) |-> EncodedTypeAddressPair_size(self.handlers[k])])
         + size_uleb128(self.catch_all_addr[1])

RECURSIVE DeserializeHandlers(_, _, _, _)
DeserializeHandlers(bytes, pos, n, acc) ==
    IF n = 0 THEN [ok |-> TRUE, val |-> acc, pos |-> pos]
    ELSE Bind(EncodedCatchHandler_deserialize(bytes, pos),
              LAMBDA e : DeserializeHandlers(bytes, e.pos, n - 1, Append(acc, e.val)))

EncodedCatchHandlerList_deserialize(bytes, pos) ==
    Bind(decode_uleb128(bytes, pos),
         LAMBDA size :
            Map(DeserializeHandlers(bytes, size.pos, ToNat(size.val), <<>>),
                LAMBDA list : [list |-> list]))

EncodedCatchHandlerList_serialize(self) ==
    encode_uleb128(Num(Len(self.list), 32)).bytes
    \o Concat([k \in 1..Len(self.list) |-> EncodedCatchHandler_serialize(self.list[k])])

EncodedCatchHandlerList_size(self) ==
    size_uleb128(Num(Len(self.list), 32))
    + Sum([k \in 1..Len(self.list) |-> EncodedCatchHandler_size(self.list[k])])

\* no handler list is read
CodeItem_handlers_none(bytes, pos, tries_size) ==
    [ok |-> TRUE, val |-> <<>>, pos |-> pos]

\* the handler list after the try items, when there are try items
CodeItem_handlers(bytes, pos, tries_size) ==
    IF tries_size # 0
    THEN Map(EncodedCatchHandlerList_deserialize(bytes, pos), LAMBDA l : <<l>>)
    ELSE [ok |-> TRUE, val |-> <<>>, pos |-> pos]

CodeItem_deserialize(bytes, pos) ==
    Bind(ReadExact(bytes, pos, 16),
         LAMBDA head :
            Bind(ReadTypeItems(bytes, head.pos, ToNat(SubSeq(head.val, 13, 16))),
                 LAMBDA insns :
                    \* the two bytes after an odd count of insns are read and dropped
                    Bind(IF ToNat(SubSeq(head.val, 7, 8)) # 0 /\ Len(insns.val) % 2 = 1
                         THEN ReadExact(bytes, insns.pos, 2)
                         ELSE [ok |-> TRUE, val |-> <<>>, pos |-> insns.pos],
                         LAMBDA pad :
                            Bind(ReadItems(bytes, pad.pos, ToNat(SubSeq(head.val, 7, 8)), 8),
                                 LAMBDA tries :
                                    Map(CodeItem_handlers(bytes, tries.pos, Len(tries.val)),
                                        LAMBDA handlers :
                                           [registers_size |-> SubSeq(head.val, 1, 2),
                                            ins_size |-> SubSeq(head.val, 3, 4),
                                            outs_size |-> SubSeq(head.val, 5, 6),
                                            debug_info_off |-> SubSeq(head.val, 9, 12),
                                            insns |-> insns.val,
                                            tries |-> tries.val,
                                            handlers |-> handlers])))))

\* the padding taken on an odd count of insns alone
CodeItem_padding_odd(self) ==
    IF Len(self.insns) % 2 = 1 THEN 2 ELSE 0

\* the padding of serialize and of size: two bytes
CodeItem_padding(self) ==
    IF Len(self.tries) # 0 /\ Len(self.insns) % 2 = 1 THEN 2 ELSE 0

\* self.tries.len() as u16, self.insns.len() as u32
CodeItem_serialize(self) ==
    self.registers_size \o self.ins_size \o self.outs_size
    \o Num(Len(self.tries) % 65536, 16)
    \o self.debug_info_off
    \o Num(Len(self.insns), 32)
    \o Concat(self.insns)
    \o [i \in 1..CodeItem_padding(self) |-> 0]
    \o Concat(self.tries)
    \o Concat([k \in 1..Len(self.handlers) |->
                   EncodedCatchHandlerList_serialize(self.handlers[k])])

CodeItem_size(self) ==
    16 + 2 * Len(self.insns) + CodeItem_padding(self) + 8 * Len(self.tries)
    + Sum([k \in 1..Len(self.handlers) |-> EncodedCatchHandlerList_size(self.handlers[k])])

\* the bounds of the code items of the inputs
MaxInsns == 3
MaxTries == 2
MaxHandlers == 2

\* catch handlers as they lie in a file: typed pairs under a positive
\* count, typed pairs and a catch-all address under a negative one, a
\* catch-all address alone under zero
HandlerWires ==
    {<<1, 5, 3>>, <<2, 5, 3, 7, 128, 1>>, <<127, 5, 3, 9>>, <<126, 5, 3, 7, 4, 172, 2>>,
     <<0, 9>>}

\* the catch handlers of the handler lists of the code items: one of each
\* sign of the count
ListedHandlerWires == {<<1, 5, 3>>, <<127, 5, 3, 9>>, <<0, 9>>}

HandlerListWires ==
    UNION {{<<n>> \o Concat(hs) : hs \in [1..n -> ListedHandlerWires]} : n \in 1..MaxHandlers}

\* code items as they lie in a file: the zero pad after an odd count of
\* insns before try items, the handler list after try items, and zero
\* filler up to the next 4-byte boundary
CodeItemWires ==
    UNION {{Pad4(<<4, 0, 1, 0, 2, 0>> \o Num(t, 16) \o Num(0, 32) \o Num(n, 32)
                 \o Concat([k \in 1..n |-> <<14, k>>])
                 \o (IF t # 0 /\ n % 2 = 1 THEN <<0, 0>> ELSE <<>>)
                 \o Concat([k \in 1..t |-> Num(k - 1, 32) \o <<1, 0>> \o <<1, 0>>])
                 \o hl) :
                hl \in IF t = 0 THEN {<<>>} ELSE HandlerListWires} :
           n \in 0..MaxInsns, t \in 0..MaxTries}

\* code items of one insn and no try items, followed by filler that is not
\* zero
BadFillerWires ==
    {<<4, 0, 1, 0, 2, 0>> \o Num(0, 16) \o Num(0, 32) \o Num(1, 32) \o <<14, 0>> \o filler :
        filler \in {<<255, 255>>, <<0, 1>>}}

\* one turn of the loop of deserialize_code_items: the code item, and
\* decode_u8 while the position is off a 4-byte boundary
deserialize_code_item(bytes, pos) ==
    Bind(CodeItem_deserialize(bytes, pos),
         LAMBDA c :
            IF c.pos % 4 = 0 THEN c
            ELSE Map(ReadExact(bytes, c.pos, 4 - (c.pos % 4)), LAMBDA filler : c.val))

\* catch handlers built in memory: up to two typed pairs, with and without
\* a catch-all address
HandlerPairs == {[type_idx |-> Num(5, 32), addr |-> Num(3, 32)],
                 [type_idx |-> Num(7, 32), addr |-> Num(128, 32)]}

HandlerSamples ==
    {[handlers |-> hs, catch_all_addr |-> c] :
        hs \in {<<>>} \cup [1..1 -> HandlerPairs] \cup [1..2 -> HandlerPairs],
        c \in {<<>>, <<Num(9, 32)>>, <<Num(300, 32)>>}}

(***************************************************************************)
(* dex_structs.rs: DebugInfoItem.                                          *)
(***************************************************************************)
RECURSIVE DeserializeNames(_, _, _, _)
\* (0..parameters_size).map(|_| decode_uleb128p1(r))
DeserializeNames(bytes, pos, n, acc) ==
    IF n = 0 THEN [ok |-> TRUE, val |-> acc, pos |-> pos]
    ELSE Bind(decode_uleb128p1(bytes, pos),
              LAMBDA e : DeserializeNames(bytes, e.pos, n - 1, Append(acc, e.val)))

\* r.read_until(0x00, ..): the bytes up to and including the first 0x00 from
\* pos on, or up to the end of input when there is none (Ok either way)
read_until_end(bytes, pos) ==
    LET zeros == {i \in (pos + 1)..Len(bytes) : bytes[i] = 0}
    IN  IF zeros = {} THEN Len(bytes)
        ELSE CHOOSE i \in zeros : \A j \in zeros : i <= j

DebugInfoItem_deserialize(bytes, pos) ==
    Bind(decode_uleb128(bytes, pos),
         LAMBDA line_start :
            Bind(decode_uleb128(bytes, line_start.pos),
                 LAMBDA parameters_size :
                    Bind(DeserializeNames(bytes, parameters_size.pos,
                                          ToNat(parameters_size.val), <<>>),
                         LAMBDA names :
                            [ok |-> TRUE,
                             val |-> [line_start |-> line_start.val,
                                      parameter_names |-> names.val,
                                      bytecode |-> SubSeq(bytes, names.pos + 1,
                                                          read_until_end(bytes, names.pos))],
                             pos |-> read_until_end(bytes, names.pos)])))

DebugInfoItem_serialize(self) ==
    encode_uleb128(self.line_start).bytes
    \o encode_uleb128(Num(Len(self.parameter_names), 32)).bytes
    \o Concat([k \in 1..Len(self.parameter_names) |->
                   encode_uleb128p1(self.parameter_names[k]).bytes])
    \o self.bytecode

\* (data + 1) as uleb128, sized: 0 is the panic of the addition at i32::MAX
\* under overflow checks
size_uleb128p1(data) ==
    IF data = I32Max /\ build = "debug" THEN 0 ELSE size_uleb128(AddOne(data))

DebugInfoItem_size(self) ==
    size_uleb128(self.line_start)
    + size_uleb128(Num(Len(self.parameter_names), 32))
    + Sum([k \in 1..Len(self.parameter_names) |-> size_uleb128p1(self.parameter_names[k])])
    + Len(self.bytecode)

\* the longest bytecode of the inputs, in opcodes before the terminator
MaxDebugOps == 2

\* opcodes of the debug state machine with their operands: a special opcode,
\* DBG_SET_PROLOGUE_END, DBG_ADVANCE_PC 4, DBG_ADVANCE_LINE 0, and
\* DBG_START_LOCAL of register 1 and of register 0
DebugOps == {<<14>>, <<7>>, <<1, 4>>, <<2, 0>>, <<3, 1, 2, 3>>, <<3, 0, 2, 3>>}

\* debug info items as they lie in a file: line_start, the parameter names
\* (NO_INDEX, or string 5), the opcodes and DBG_END_SEQUENCE
DebugInfoWires ==
    UNION {{<<1, n>> \o Concat(names) \o Concat(ops) \o <<0>> :
                names \in [1..n -> {<<0>>, <<6>>}], ops \in [1..k -> DebugOps]} :
           <<n, k>> \in (0..1) \X (0..MaxDebugOps)}

(***************************************************************************)
(* A record's trip through its DexStruct implementation, as the section    *)
(* tests make it (tests/dex_parser_tests.rs, assert_struct_eq): decode the *)
(* record from its bytes, take a cursor over size() zero bytes, serialize  *)
(* into it, rewind and decode again.                                       *)
(***************************************************************************)
RecordKinds ==
    {"EncodedValue", "EncodedArrayItem", "AnnotationItem", "StringDataItem", "Header",
     "TypeList", "CodeItem", "EncodedCatchHandler",
     "DebugInfoItem"}

RecordWires(k) ==
    CASE k = "EncodedValue" -> ValueWires \cup MalformedValueWires
      [] k = "EncodedArrayItem" -> ArrayWires
      [] k = "AnnotationItem" -> AnnotationItemWires
      [] k = "StringDataItem" -> StringDataWires
      [] k = "Header" -> {SubSeq(f, 1, 112) : f \in DexFiles}
      [] k = "TypeList" -> TypeListWires
      [] k = "CodeItem" -> CodeItemWires \cup BadFillerWires
      [] k = "EncodedCatchHandler" -> HandlerWires
      [] k = "DebugInfoItem" -> DebugInfoWires

Deserialize(k, bytes, pos) ==
    CASE k = "EncodedValue" -> EncodedValue_deserialize(bytes, pos)
      [] k = "EncodedArrayItem" -> EncodedArrayItem_deserialize(bytes, pos)
      [] k = "AnnotationItem" -> AnnotationItem_deserialize(bytes, pos)
      [] k = "StringDataItem" -> StringDataItem_deserialize(bytes, pos)
      [] k = "Header" -> Header_deserialize(bytes, pos)
      [] k = "TypeList" -> TypeList_deserialize(bytes, pos)
      [] k = "CodeItem" -> CodeItem_deserialize(bytes, pos)
      [] k = "EncodedCatchHandler" -> EncodedCatchHandler_deserialize(bytes, pos)
      [] k = "DebugInfoItem" -> DebugInfoItem_deserialize(bytes, pos)

\* the record as the section reader of lib.rs decodes it: the reader of the
\* type lists and the reader of the code items have loop bodies of their
\* own, the others call T::deserialize
SectionItem(k, bytes, pos) ==
    IF k = "TypeList" THEN deserialize_type_list(bytes, pos)
    ELSE IF k = "CodeItem" THEN deserialize_code_item(bytes, pos)
    ELSE Deserialize(k, bytes, pos)

Serialize(k, self) ==
    CASE k = "EncodedValue" -> EncodedValue_serialize(self)
      [] k = "EncodedArrayItem" -> EncodedArrayItem_serialize(self)
      [] k = "AnnotationItem" -> AnnotationItem_serialize(self)
      [] k = "StringDataItem" -> StringDataItem_serialize(self)
      [] k = "Header" -> Header_serialize(self)
      [] k = "TypeList" -> TypeList_serialize(self)
      [] k = "CodeItem" -> CodeItem_serialize(self)
      [] k = "EncodedCatchHandler" -> EncodedCatchHandler_serialize(self)
      [] k = "DebugInfoItem" -> DebugInfoItem_serialize(self)

Size(k, self) ==
    CASE k = "EncodedValue" -> EncodedValue_size(self)
      [] k = "EncodedArrayItem" -> EncodedArrayItem_size(self)
      [] k = "AnnotationItem" -> AnnotationItem_size(self)
      [] k = "StringDataItem" -> StringDataItem_size(self)
      [] k = "Header" -> Header_size(self)
      [] k = "TypeList" -> TypeList_size(self)
      [] k = "CodeItem" -> CodeItem_size(self)
      [] k = "EncodedCatchHandler" -> EncodedCatchHandler_size(self)
      [] k = "DebugInfoItem" -> DebugInfoItem_size(self)

\* Cursor<Vec<u8>>::write at position 0: overwrites, and grows the vector
\* when the data runs past its end
CursorWrite(vec, data) == data \o SubSeq(vec, Len(data) + 1, Len(vec))

InitRecord ==
    /\ build \in {"debug", "release"}
    /\ pc = "start"
    /\ LebIdle /\ WidthIdle /\ FileIdle /\ BuilderIdle /\ InsnIdle
    /\ rkind \in RecordKinds
    /\ wire \in RecordWires(rkind)
    /\ rec = Failed /\ sz = 0 /\ outBytes = <<>> /\ buf = <<>> /\ rec2 = Failed

\* a catch handler built in memory rather than decoded: there is no wire
InitHandler ==
    /\ build \in {"debug", "release"}
    /\ pc = "parsed"
    /\ LebIdle /\ WidthIdle /\ FileIdle /\ BuilderIdle /\ InsnIdle
    /\ rkind = "EncodedCatchHandler" /\ wire = <<>>
    /\ \E h \in HandlerSamples : rec = [ok |-> TRUE, val |-> h, pos |-> 0]
    /\ sz = 0 /\ outBytes = <<>> /\ buf = <<>> /\ rec2 = Failed

DeserializeRecord ==
    /\ pc = "start" /\ rkind # "none"
    /\ rec' = SectionItem(rkind, wire, 0)
    /\ pc' = "parsed"
    /\ UNCHANGED <<build, rkind, wire, sz, outBytes, buf, rec2, lebVars, widthVars, fileVars, builderVars, insnVars>>

\* Cursor::new(vec![0u8; $strct.size()])
AllocateCursor ==
    /\ pc = "parsed" /\ rec.ok
    /\ sz' = Size(rkind, rec.val)
    /\ buf' = [i \in 1..sz' |-> 0]
    /\ pc' = "allocated"
    /\ UNCHANGED <<build, rkind, wire, rec, outBytes, rec2, lebVars, widthVars, fileVars, builderVars, insnVars>>

SerializeRecord ==
    /\ pc = "allocated"
    /\ outBytes' = Serialize(rkind, rec.val)
    /\ buf' = CursorWrite(buf, outBytes')
    /\ pc' = "written"
    /\ UNCHANGED <<build, rkind, wire, rec, sz, rec2, lebVars, widthVars, fileVars, builderVars, insnVars>>

RedeserializeRecord ==
    /\ pc = "written"
    /\ rec2' = Deserialize(rkind, buf, 0)
    /\ pc' = "reparsed"
    /\ UNCHANGED <<build, rkind, wire, rec, sz, outBytes, buf, lebVars, widthVars, fileVars, builderVars, insnVars>>

NextRecord ==
    \/ DeserializeRecord
    \/ AllocateCursor
    \/ SerializeRecord
    \/ RedeserializeRecord

SpecRecord == (InitRecord \/ InitHandler) /\ [][NextRecord]_vars

(***************************************************************************)
(* lib.rs: the container.  deserialize reads the header and the id tables  *)
(* one after another from the start of the file, the map list at map_off,  *)
(* the data section after the last id record, the sections the map list    *)
(* names, and the link data; serialize concatenates header, id tables,     *)
(* data and link data.  transmute is taken with the fields of Header and   *)
(* MapItem at their declared (wire) offsets, so that the bytes of a record *)
(* are the record.  The files here carry string data and encoded arrays;   *)
(* the readers of the other sections find no map entry.                    *)
(***************************************************************************)
\* the header's count and mem::size_of of the record, for each id table in
\* the order the tables are read
IdTables ==
    <<<<"string_ids_size", 4>>, <<"type_ids_size", 4>>, <<"proto_ids_size", 12>>,
      <<"field_ids_size", 8>>, <<"method_ids_size", 8>>, <<"class_defs_size", 32>>>>

MapItemFields == <<"type_code", "unused", "size", "offset">>

\* the discriminants of the closed enum TypeCode (#[repr(u16)])
TypeCodes == (0..8) \cup (4096..4099) \cup (8192..8198) \cup {61440}

\* What a build can make of the u16 a map item is transmuted from.  A
\* discriminant of the enum is that variant.  Any other number is an invalid
\* value of the type, which is undefined behaviour: ub.raw is the build that
\* carries the number along as it is, equal to no variant; otherwise ub.as is
\* the variant the build takes the value for.
UnknownCodeOutcomes ==
    {[raw |-> TRUE, as |-> 0]} \cup {[raw |-> FALSE, as |-> c] : c \in TypeCodes}

TransmuteTypeCode(num, ub) ==
    IF ToNat(num) \in TypeCodes \/ ub.raw THEN num ELSE Num(ub.as, 16)

\* transmute::<[u8; 12], MapItem>
MapItem_transmute(arr, ub) ==
    LET item == ReadFields(arr, 0, MapItemFields, <<>>).val
    IN  [item EXCEPT !.type_code = TransmuteTypeCode(item.type_code, ub)]

RECURSIVE ReadTables(_, _, _, _, _)
ReadTables(bytes, i, header, tables, acc) ==
    IF Len(tables) = 0 THEN [ok |-> TRUE, val |-> acc, pos |-> i]
    ELSE Bind(ReadItems(bytes, i, ToNat(header[Head(tables)[1]]), Head(tables)[2]),
              LAMBDA t : ReadTables(bytes, t.pos, header, Tail(tables), Append(acc, t.val)))

\* MapList::get and the filter(..).last() of deserialize: the last entry of
\* the type, as a sequence of at most one item
MapList_get(list, type_code) ==
    LET found == {k \in 1..Len(list) : list[k].type_code = Num(type_code, 16)}
    IN  IF found = {} THEN <<>>
        ELSE <<list[CHOOSE k \in found : \A j \in found : j <= k]>>

RECURSIVE DeserializeSection(_, _, _, _, _)
\* cursor.set_position(offset); for _ in 0..size { items.push(..) }
DeserializeSection(k, bytes, pos, n, acc) ==
    IF n = 0 THEN [ok |-> TRUE, val |-> acc, pos |-> pos]
    ELSE Bind(SectionItem(k, bytes, pos),
              LAMBDA e : DeserializeSection(k, bytes, e.pos, n - 1, Append(acc, e.val)))

\* the count of the call site ids / method handles: the size of the map
\* entry of the type, none when the map has no such entry
MapCount(list, type_code) ==
    LET item == MapList_get(list, type_code)
    IN  IF Len(item) = 0 THEN 0 ELSE ToNat(item[1].size)

\* match map_list.get(type_code) { Some(map_item) => deserialize_..(..), None => vec![] }
Section(k, bytes, list, type_code) ==
    LET item == MapList_get(list, type_code)
    IN  IF Len(item) = 0 THEN [ok |-> TRUE, val |-> <<>>, pos |-> 0]
        ELSE DeserializeSection(k, bytes, ToNat(item[1].offset), ToNat(item[1].size), <<>>)

\* the part of deserialize after the map list is read
deserialize_mapped(bytes, header, tables, list) ==
    LET call_site_ids == ReadItems(bytes, tables.pos, MapCount(list, 7), 4)
        method_handles == ReadItems(bytes, call_site_ids.pos, MapCount(list, 8), 8)
        data == ReadExact(bytes, method_handles.pos, ToNat(header.data_size))
        string_data_items == Section("StringDataItem", bytes, list, 8194)
        annotation_items == Section("AnnotationItem", bytes, list, 8196)
        encoded_array_items == Section("EncodedArrayItem", bytes, list, 8197)
        link_data == ReadExact(bytes, ToNat(header.link_off), ToNat(header.link_size))
    IN  IF /\ call_site_ids.ok /\ method_handles.ok /\ data.ok
           /\ string_data_items.ok /\ annotation_items.ok
           /\ Len(MapList_get(list, 61440)) = 0
           /\ encoded_array_items.ok /\ link_data.ok
        THEN [ok |-> TRUE,
              val |-> [header |-> header,
                       ids |-> tables.val,
                       call_site_ids |-> call_site_ids.val,
                       method_handles |-> method_handles.val,
                       data |-> data.val,
                       string_data_items |-> string_data_items.val,
                       annotation_items |-> annotation_items.val,
                       encoded_array_items |-> encoded_array_items.val,
                       link_data |-> link_data.val,
                       map_list |-> list],
              pos |-> Len(bytes)]
        ELSE Failed

\* impl From<io::Error> for DeserializeError, as the Err the ? returns
From_io_Error_unknown(err) ==
    [ok |-> FALSE, val |-> [error |-> "UnknownError", raw_os_error |-> 0], pos |-> 0]

From_io_Error(err) ==
    [ok |-> FALSE, val |-> [error |-> "FileOpenError", raw_os_error |-> err], pos |-> 0]

\* deserialize once the file is open and read into bytes
deserialize(bytes, ub) ==
    Bind(Header_deserialize(bytes, 0),
         LAMBDA header :
            Bind(ReadTables(bytes, header.pos, header.val, IdTables, <<>>),
                 LAMBDA tables :
                    Bind(ReadExact(bytes, ToNat(header.val.map_off), 4),
                         LAMBDA map_list_size :
                            Bind(ReadItems(bytes, map_list_size.pos, ToNat(map_list_size.val), 12),
                                 LAMBDA items :
                                    deserialize_mapped(bytes, header.val, tables,
                                        [k \in 1..Len(items.val) |->
                                            MapItem_transmute(items.val[k], ub)])))))

\* the header, each id table, the call site ids and the method handles, then
\* the data and the link data, appended in that order
serialize(dex_file) ==
    Header_serialize(dex_file.header)
        \o Concat([t \in 1..Len(dex_file.ids) |-> Concat(dex_file.ids[t])])
        \o Concat(dex_file.call_site_ids)
        \o Concat(dex_file.method_handles)
        \o dex_file.data
        \o dex_file.link_data

\* let file = File::open(filepath)?; then the rest of deserialize
deserialize_path(err, bytes, ub) ==
    IF err # 0 THEN From_io_Error(err) ELSE deserialize(bytes, ub)

\* errors of open(2): ENOENT (the path "" of the unit test), EACCES
OpenErrors == {2, 13}

(***************************************************************************)
(* dex_model.rs: DexModelBuilder, which assembles the sections into the    *)
(* model.  An Option is a sequence: None is <<>>, Some(x) is <<x>>.        *)
(***************************************************************************)
\* the fields of DexModelBuilder and of DexModel
BuilderFields ==
    {"header", "string_ids", "type_ids", "proto_ids", "field_ids", "method_ids",
     "class_defs", "call_site_ids", "method_handles", "type_lists",
     "string_data_items", "annotation_set_ref_lists", "annotation_set_items",
     "annotation_items", "annotations_directory_items",
     "hiddenapi_class_data_items", "encoded_array_items", "class_data_items",
     "debug_info_items", "code_items", "link_data", "map_list"}

\* the fields build() takes with unwrap()
RequiredFields == {"header", "map_list"}

DexModelBuilder_new == [f \in BuilderFields |-> <<>>]

\* set_header, set_map_list, set_string_ids, ..: self.f = Some(value)
DexModelBuilder_set(self, f, value) == [self EXCEPT ![f] = <<value>>]

\* unwrap() on every field
DexModelBuilder_build_unwrap(self) ==
    IF \E f \in BuilderFields : Len(self[f]) = 0 THEN Failed
    ELSE [ok |-> TRUE, val |-> [f \in BuilderFields |-> self[f][1]], pos |-> 0]

\* unwrap() panics on None; unwrap_or_default() gives the empty vector
DexModelBuilder_build(self) ==
    IF \E f \in RequiredFields : Len(self[f]) = 0 THEN Failed
    ELSE [ok |-> TRUE,
          val |-> [f \in BuilderFields |->
                     IF Len(self[f]) = 0 THEN <<>> ELSE self[f][1]],
          pos |-> 0]

\* at most this many sections are set on one builder
MaxSet == 3

\* a value for each setter: a header, an empty map list, one byte of link
\* data, and for the other sections a vector of one item
BuilderSample(f) ==
    CASE f = "header" -> MakeHeader([file_size |-> 112])
      [] f = "map_list" -> <<>>
      [] f = "link_data" -> <<7>>
      [] OTHER -> <<<<1, 0, 0, 0>>>>

InitFile ==
    /\ build \in {"debug", "release"}
    /\ LebIdle /\ WidthIdle /\ RecIdle /\ InsnIdle
    /\ \/ /\ pc = "start" /\ BuilderIdle
          /\ \/ open_err = 0 /\ file \in DexFiles \cup UnknownCodeFiles
             \/ open_err \in OpenErrors /\ file = <<>>
       \/ /\ pc = "building" /\ open_err = 0 /\ file = <<>>
          /\ builder = DexModelBuilder_new /\ model = Failed
    /\ dex = Failed
    /\ ser = <<>>

SetSection ==
    /\ pc = "building"
    /\ \E f \in BuilderFields :
          /\ Cardinality({g \in BuilderFields \ {f} : Len(builder[g]) > 0}) < MaxSet
          /\ builder' = DexModelBuilder_set(builder, f, BuilderSample(f))
    /\ UNCHANGED <<build, pc, model, lebVars, widthVars, recVars, fileVars, insnVars>>

BuildModel ==
    /\ pc = "building"
    /\ model' = DexModelBuilder_build(builder)
    /\ pc' = "built"
    /\ UNCHANGED <<build, builder, lebVars, widthVars, recVars, fileVars, insnVars>>

DeserializeFile ==
    /\ pc = "start"
    /\ \E ub \in UnknownCodeOutcomes : dex' = deserialize_path(open_err, file, ub)
    /\ pc' = "loaded"
    /\ UNCHANGED <<build, open_err, file, ser, lebVars, widthVars, recVars, builderVars, insnVars>>

SerializeFile ==
    /\ pc = "loaded" /\ dex.ok
    /\ ser' = serialize(dex.val)
    /\ pc' = "saved"
    /\ UNCHANGED <<build, open_err, file, dex, lebVars, widthVars, recVars, builderVars, insnVars>>

NextFile ==
    \/ DeserializeFile
    \/ SerializeFile
    \/ SetSection
    \/ BuildModel

SpecFile == InitFile /\ [][NextFile]_vars

(***************************************************************************)
(* instructions/mod.rs: the instruction codec.  An instruction is its      *)
(* shape, its opcode and the fields of its struct in declaration order     *)
(* (args); a field unpacked from a nybble is a number, any other field its *)
(* bytes (the casts between u16 and i16, u32 and i32, u64 and i64 keep     *)
(* them).                                                                  *)
(***************************************************************************)
\* the arms of the match of decode_insn, in order: first and last opcode,
\* and the shape whose deserialize the arm calls (Nop: the arm of 0x00)
Arms ==
    <<<<0, 0, "Nop">>, <<1, 1, "Ins12x">>, <<2, 2, "Ins22x">>, <<3, 3, "Ins32x">>,
      <<4, 4, "Ins12x">>, <<5, 5, "Ins22x">>, <<6, 6, "Ins32x">>, <<7, 7, "Ins12x">>,
      <<8, 8, "Ins22x">>, <<9, 9, "Ins32x">>, <<10, 10, "Ins11x">>,
      <<11, 11, "Ins11x">>, <<12, 12, "Ins11x">>, <<13, 13, "Ins11x">>,
      <<14, 14, "Ins10x">>, <<15, 15, "Ins11x">>, <<16, 16, "Ins11x">>,
      <<17, 17, "Ins11x">>, <<18, 18, "Ins11n">>, <<19, 19, "Ins21s">>,
      <<20, 20, "Ins31i">>, <<21, 21, "Ins21h">>, <<22, 22, "Ins21s">>,
      <<23, 23, "Ins31i">>, <<24, 24, "Ins51l">>, <<25, 25, "Ins21h">>,
      <<26, 26, "Ins21c">>, <<27, 27, "Ins31c">>, <<28, 28, "Ins21c">>,
      <<29, 29, "Ins11x">>, <<30, 30, "Ins11x">>, <<31, 31, "Ins21c">>,
      <<32, 32, "Ins22c">>, <<33, 33, "Ins12x">>, <<34, 34, "Ins21c">>,
      <<35, 35, "Ins22c">>, <<36, 36, "Ins35c">>, <<37, 37, "Ins3rc">>,
      <<38, 38, "Ins31t">>, <<39, 39, "Ins11x">>, <<40, 40, "Ins10t">>,
      <<41, 41, "Ins20t">>, <<42, 42, "Ins30t">>, <<43, 43, "Ins31t">>,
      <<44, 44, "Ins31t">>, <<45, 49, "Ins23x">>, <<50, 55, "Ins22t">>,
      <<56, 61, "Ins21t">>, <<62, 67, "Ins10x">>, <<68, 81, "Ins23x">>,
      <<82, 95, "Ins22c">>, <<96, 109, "Ins21c">>, <<110, 114, "Ins35c">>,
      <<115, 115, "Ins10x">>, <<116, 120, "Ins3rc">>, <<121, 122, "Ins10x">>,
      <<123, 143, "Ins12x">>, <<144, 175, "Ins23x">>, <<176, 207, "Ins12x">>,
      <<208, 215, "Ins22s">>, <<216, 226, "Ins22b">>, <<227, 249, "Ins10x">>,
      <<250, 250, "Ins45cc">>, <<251, 251, "Ins4rcc">>, <<252, 252, "Ins35c">>,
      <<253, 253, "Ins3rc">>, <<254, 254, "Ins21c">>, <<255, 255, "Ins21c">>>>

\* match: the first arm the opcode falls in
Shape(opcode) ==
    LET hit == {k \in 1..Len(Arms) : Arms[k][1] <= opcode /\ opcode <= Arms[k][2]}
    IN  Arms[CHOOSE k \in hit : \A j \in hit : k <= j][3]

\* the reads of each deserialize after the opcode, in order, as byte counts
FieldReads ==
    [Ins10x |-> <<1>>, Ins12x |-> <<1>>, Ins11n |-> <<1>>, Ins11x |-> <<1>>,
     Ins10t |-> <<1>>, Ins20t |-> <<1, 2>>, Ins22x |-> <<1, 2>>, Ins21t |-> <<1, 2>>,
     Ins21s |-> <<1, 2>>, Ins21h |-> <<1, 2>>, Ins21c |-> <<1, 2>>,
     Ins23x |-> <<1, 1, 1>>, Ins22b |-> <<1, 1, 1>>, Ins22t |-> <<1, 2>>,
     Ins22s |-> <<1, 2>>, Ins22c |-> <<1, 2>>, Ins30t |-> <<1, 4>>,
     Ins32x |-> <<1, 2, 2>>, Ins31i |-> <<1, 4>>, Ins31t |-> <<1, 4>>,
     Ins31c |-> <<1, 4>>, Ins35c |-> <<1, 2, 1, 1>>, Ins3rc |-> <<1, 2, 2>>,
     Ins45cc |-> <<1, 2, 1, 1, 2>>, Ins4rcc |-> <<1, 2, 2, 2>>, Ins51l |-> <<1, 8>>]

RECURSIVE ReadWidths(_, _, _, _)
ReadWidths(bytes, pos, widths, acc) ==
    IF Len(widths) = 0 THEN [ok |-> TRUE, val |-> acc, pos |-> pos]
    ELSE Bind(ReadExact(bytes, pos, Head(widths)),
              LAMBDA f : ReadWidths(bytes, f.pos, Tail(widths), Append(acc, f.val)))

\* the shapes whose deserialize asserts its first byte to be zero
ZeroFirst == {"Ins10x", "Ins20t", "Ins30t", "Ins32x"}
\* the shapes whose first byte packs registers a (low nybble) and b (high)
NybbleFirst == {"Ins12x", "Ins22t", "Ins22s", "Ins22c"}
\* the shapes whose bytes pack a|g, d|c and f|e
NybbleCall == {"Ins35c", "Ins45cc"}

\* data as i8 >> 4: the high nybble, sign-extended, as the byte of the i8
HighNybbleSigned(data) == IF data >= 128 THEN 240 + data \div 16 ELSE data \div 16

\* the struct a deserialize builds from the fields f it read
Fields(shape, f) ==
    CASE shape = "Ins10x" -> <<>>
      [] shape \in ZeroFirst \ {"Ins10x"} -> Tail(f)
      [] shape \in NybbleFirst -> <<f[1][1] % 16, f[1][1] \div 16>> \o Tail(f)
      [] shape = "Ins11n" -> <<f[1][1] % 16, HighNybbleSigned(f[1][1])>>
      [] shape \in NybbleCall ->
            <<f[1][1] \div 16, f[2], f[3][1] % 16, f[3][1] \div 16,
              f[4][1] % 16, f[4][1] \div 16, f[1][1] % 16>> \o SubSeq(f, 5, Len(f))
      [] OTHER -> f

TInstruction_deserialize(shape, bytes, pos, opcode) ==
    Bind(ReadWidths(bytes, pos, FieldReads[shape], <<>>),
         LAMBDA f :
            IF shape \in ZeroFirst /\ f.val[1] # <<0>> THEN Failed
            ELSE [f EXCEPT !.val = [shape |-> shape, op |-> opcode,
                                    args |-> Fields(shape, f.val)]])

\* p << 4 | q on u8
Pack(p, q) == ToNat(BitOr(Num((p * 16) % 256, 8), Num(q, 8)))

\* what serialize writes after the opcode
Instruction_operands(self) ==
    CASE self.shape = "Ins10x" -> <<0>>
      [] self.shape \in ZeroFirst \ {"Ins10x"} -> <<0>> \o Concat(self.args)
      [] self.shape \in NybbleFirst \cup {"Ins11n"} ->
            <<Pack(self.args[2], self.args[1])>>
            \o Concat(SubSeq(self.args, 3, Len(self.args)))
      [] self.shape \in NybbleCall ->
            <<Pack(self.args[1], self.args[7])>> \o self.args[2]
            \o <<Pack(self.args[4], self.args[3]), Pack(self.args[6], self.args[5])>>
            \o Concat(SubSeq(self.args, 8, Len(self.args)))
      [] OTHER -> Concat(self.args)

PackedSwitchPayload_deserialize(bytes, pos) ==
    Bind(ReadWidths(bytes, pos, <<2, 4>>, <<>>),
         LAMBDA h :
            Map(ReadItems(bytes, h.pos, ToNat(h.val[1]), 4),
                LAMBDA targets : [shape |-> "PackedSwitchPayload", size |-> h.val[1],
                                  first_key |-> h.val[2], targets |-> targets]))

SparseSwitchPayload_deserialize(bytes, pos) ==
    Bind(ReadExact(bytes, pos, 2),
         LAMBDA size :
            Bind(ReadItems(bytes, size.pos, ToNat(size.val), 4),
                 LAMBDA keys :
                    Map(ReadItems(bytes, keys.pos, ToNat(size.val), 4),
                        LAMBDA targets : [shape |-> "SparseSwitchPayload",
                                          size |-> size.val, keys |-> keys.val,
                                          targets |-> targets])))

\* the byte after data of odd length is read and dropped
FillArrayDataPayload_deserialize(bytes, pos) ==
    Bind(ReadWidths(bytes, pos, <<2, 4>>, <<>>),
         LAMBDA h :
            Bind(ReadExact(bytes, h.pos, ToNat(h.val[1]) * ToNat(h.val[2])),
                 LAMBDA data :
                    Map(ReadExact(bytes, data.pos, Len(data.val) % 2),
                        LAMBDA burnt : [shape |-> "FillArrayDataPayload",
                                        element_width |-> h.val[1], size |-> h.val[2],
                                        data |-> data.val])))

\* the match on the byte after opcode 0x00
Nop_deserialize(bytes, pos) ==
    Bind(decode_u8(bytes, pos),
         LAMBDA b :
            CASE b.val = <<0>> ->
                    [b EXCEPT !.val = [shape |-> "Ins10x", op |-> 0, args |-> <<>>]]
              [] b.val = <<1>> -> PackedSwitchPayload_deserialize(bytes, b.pos)
              [] b.val = <<2>> -> SparseSwitchPayload_deserialize(bytes, b.pos)
              [] b.val = <<3>> -> FillArrayDataPayload_deserialize(bytes, b.pos)
              [] OTHER -> Failed)

decode_insn(bytes, pos) ==
    Bind(decode_u8(bytes, pos),
         LAMBDA o :
            IF Shape(o.val[1]) = "Nop" THEN Nop_deserialize(bytes, o.pos)
            ELSE TInstruction_deserialize(Shape(o.val[1]), bytes, o.pos, o.val[1]))

Instruction_serialize(self) ==
    CASE self.shape = "PackedSwitchPayload" ->
            <<0, 1>> \o self.size \o self.first_key \o Concat(self.targets)
      [] self.shape = "SparseSwitchPayload" ->
            <<0, 2>> \o self.size \o Concat(self.keys) \o Concat(self.targets)
      [] self.shape = "FillArrayDataPayload" ->
            <<0, 3>> \o self.element_width \o self.size \o self.data
            \o [i \in 1..(Len(self.data) % 2) |-> 0]
      [] OTHER -> <<self.op>> \o Instruction_operands(self)

\* size() of the shapes of fixed length
FixedSize ==
    [Ins10x |-> 2, Ins12x |-> 2, Ins11n |-> 2, Ins11x |-> 2, Ins10t |-> 2,
     Ins20t |-> 4, Ins22x |-> 4, Ins21t |-> 4, Ins21s |-> 4, Ins21h |-> 4,
     Ins21c |-> 4, Ins23x |-> 4, Ins22b |-> 4, Ins22t |-> 4, Ins22s |-> 4,
     Ins22c |-> 4, Ins30t |-> 6, Ins32x |-> 6, Ins31i |-> 6, Ins31t |-> 6,
     Ins31c |-> 6, Ins35c |-> 6, Ins3rc |-> 6, Ins45cc |-> 8, Ins4rcc |-> 8,
     Ins51l |-> 10]

\* the data payload sized without rounding up to a code unit
FillArrayDataPayload_size_odd(self) == ToNat(self.size) * ToNat(self.element_width) + 8

FillArrayDataPayload_size(self) ==
    LET size == ToNat(self.size) * ToNat(self.element_width) + 8
    IN  IF size % 2 = 1 THEN size + 1 ELSE size

Instruction_size(self) ==
    CASE self.shape = "PackedSwitchPayload" -> ToNat(self.size) * 4 + 8
      [] self.shape = "SparseSwitchPayload" -> ToNat(self.size) * 8 + 4
      [] self.shape = "FillArrayDataPayload" -> FillArrayDataPayload_size(self)
      [] OTHER -> FixedSize[self.shape]

RECURSIVE Sub(_, _)
\* wrapping b - k
Sub(b, k) == IF k = 0 THEN b ELSE Sub(SubOne(b), k - 1)

\* b < k for a usize b and a small k
Below(b, k) == SubSeq(b, 4, 8) = <<0, 0, 0, 0, 0>> /\ ToNat(SubSeq(b, 1, 3)) < k

\* the longest payload tables and data of the inputs
MaxSwitch == 2
MaxFill == 3

\* one instruction of each opcode but 0x00: the opcode and as many operand
\* bytes as its shape reads, a zero first where the shape has no register
InsnSample(opcode, fill) ==
    LET n == Sum(FieldReads[Shape(opcode)])
    IN  <<opcode>> \o [i \in 1..n |->
                          IF i = 1 /\ Shape(opcode) \in ZeroFirst THEN 0
                          ELSE (fill + 16 * i) % 256]

\* nop and the three payloads; the byte after data of odd length is zero,
\* or is not
NopSamples ==
    {<<0, 0>>}
    \cup {<<0, 1>> \o Num(n, 16) \o Num(7, 32) \o Concat([k \in 1..n |-> Num(k, 32)]) :
            n \in 0..MaxSwitch}
    \cup {<<0, 2>> \o Num(n, 16) \o Concat([k \in 1..(2 * n) |-> Num(k, 32)]) :
            n \in 0..MaxSwitch}
    \cup UNION {{<<0, 3>> \o Num(w, 16) \o Num(n, 32) \o [k \in 1..(w * n) |-> 16 + k]
                  \o (IF (w * n) % 2 = 1 THEN <<last>> ELSE <<>>) :
                    last \in {0, 255}} :
                 <<w, n>> \in {1, 2} \X (0..MaxFill)}

InsnSamples ==
    {InsnSample(opcode, fill) : opcode \in 1..255, fill \in {7, 156}} \cup NopSamples

\* what decode_insns is called on: the reader's bytes and insns_size.  An
\* array of whole instructions, alone in the input; and a count that ends
\* inside the last instruction, or on a byte after 0x00 that names no
\* payload
InsnInputs ==
    {[bytes |-> i, n |-> Len(i) \div 2] : i \in InsnSamples}
    \cup {[bytes |-> i \o j, n |-> Len(i \o j) \div 2] :
            i \in {<<1, 33>>, <<2, 1, 5, 0>>, <<0, 3, 1, 0, 1, 0, 0, 0, 9, 0>>},
            j \in {<<14, 0>>, <<24, 1, 1, 2, 3, 4, 5, 6, 7, 8>>, <<0, 0, 18, 240>>}}
    \cup {[bytes |-> i, n |-> 1] : i \in {<<2, 1>>, <<2, 1, 5, 0>>, <<2, 1, 5, 0, 14, 0>>,
                                          <<0, 4>>}}

InitInsn ==
    /\ build \in {"debug", "release"}
    /\ pc = "decoding"
    /\ LebIdle /\ WidthIdle /\ RecIdle /\ FileIdle /\ BuilderIdle
    /\ \E i \in InsnInputs : input = i.bytes /\ insns_size = i.n /\ units = Num(i.n, 64)
    /\ ipos = 0 /\ decoded = <<>> /\ ends = <<>> /\ emitted = <<>> /\ sizes = <<>>

\* one turn of the loop of decode_insns: decode_insn, then
\* insns_size -= insn.size() / 2 on a usize, which panics below zero under
\* overflow checks and wraps without them, then push
DecodeInsn ==
    /\ pc = "decoding" /\ units # Zeros(64)
    /\ LET r == decode_insn(input, ipos)
       IN  IF ~r.ok
           THEN pc' = "panicked" /\ UNCHANGED <<units, ipos, decoded, ends, sizes>>
           ELSE /\ ipos' = r.pos
                /\ sizes' = Append(sizes, Instruction_size(r.val))
                /\ IF Below(units, Instruction_size(r.val) \div 2) /\ build = "debug"
                   THEN pc' = "panicked" /\ UNCHANGED <<units, decoded, ends>>
                   ELSE /\ units' = Sub(units, Instruction_size(r.val) \div 2)
                        /\ decoded' = Append(decoded, r.val)
                        /\ ends' = Append(ends, r.pos)
                        /\ pc' = "decoding"
    /\ UNCHANGED <<build, input, insns_size, emitted, lebVars, widthVars, recVars, fileVars, builderVars>>

\* while insns_size > 0 fails: return insns
ReturnInsns ==
    /\ pc = "decoding" /\ units = Zeros(64)
    /\ pc' = "returned"
    /\ UNCHANGED <<build, lebVars, widthVars, recVars, fileVars, builderVars, insnVars>>

\* each instruction returned is serialized into a sink of its own
SerializeInsns ==
    /\ pc = "returned"
    /\ emitted' = [k \in 1..Len(decoded) |-> Instruction_serialize(decoded[k])]
    /\ pc' = "serialized"
    /\ UNCHANGED <<build, input, insns_size, units, ipos, decoded, ends, sizes, lebVars, widthVars, recVars, fileVars, builderVars>>

NextInsn ==
    \/ DecodeInsn
    \/ ReturnInsns
    \/ SerializeInsns

SpecInsn == InitInsn /\ [][NextInsn]_vars

(***************************************************************************)
(* Properties.                                                             *)
(***************************************************************************)

\* C7: ULEB128 identity.  For every 32-bit x, encode_uleb128(x) does not
\* panic and writes between 1 and 5 bytes, and decode_uleb128 of those bytes
\* succeeds, consumes all of them and returns x.
C7_Uleb128Identity ==
    /\ (op = "uleb128" /\ pc = "encoded") =>
            (~enc.panicked /\ Len(enc.bytes) \in 1..5)
    /\ (op = "uleb128" /\ pc = "decoded") =>
            (dec.ok /\ dec.val = x /\ dec.pos = Len(enc.bytes))

\* the five-byte case 0xFFFFFFFF and the two-byte case 11016, decoded back
C7_Witness ==
    /\ op = "uleb128" /\ pc = "decoded" /\ dec.ok /\ dec.val = x
    /\ \/ x = Ones(32) /\ Len(enc.bytes) = 5
       \/ x = Num(11016, 32) /\ enc.bytes = <<136, 86>>

\* C8: SLEB128 identity.  For every i32 x, encode_sleb128(x) does not panic,
\* and decode_sleb128 of the bytes it wrote returns x.
C8_Sleb128Identity ==
    /\ (op = "sleb128" /\ pc = "encoded") => ~enc.panicked
    /\ (op = "sleb128" /\ pc = "decoded") => (dec.ok /\ dec.val = x)

\* the part of C8 the code keeps: whenever encode_sleb128 returns, the
\* bytes it wrote decode to x (the value 1 included)
C8_Witness ==
    /\ op = "sleb128" /\ pc = "decoded" /\ x = Num(1, 32)
    /\ enc.bytes = <<1>> /\ dec.ok /\ dec.val = x

\* C9: ULEB128p1 identity.  For every x with -1 <= x <= 2^31 - 1,
\* encode_uleb128p1(x) writes the ULEB128 encoding of x + 1 without an
\* arithmetic overflow (which the checked build reports as a panic), and
\* decode_uleb128p1 of those bytes returns x, again without overflow.
C9_Uleb128p1Identity ==
    /\ (op = "uleb128p1" /\ pc = "encoded") =>
            (~enc.panicked /\ enc.bytes = encode_uleb128(AddOne(x)).bytes)
    /\ (op = "uleb128p1" /\ pc = "decoded") => (dec.ok /\ dec.val = x)

\* -1 is the single byte 0x00 and decodes back to -1
C9_Witness ==
    /\ op = "uleb128p1" /\ pc = "decoded" /\ x = Ones(32)
    /\ enc.bytes = <<0>> /\ dec.ok /\ dec.val = x

\* v is representable as a w-byte two's-complement integer: bits 8w-1..63
\* all equal the sign bit
FitsSigned(b, w) == \A i \in (8 * w)..64 : Bits(b)[i] = Bits(b)[64]

\* C10: for every i64 v, get_required_bytes_signed(v) is a width w in 1..8
\* such that v is representable in w bytes of two's complement and, when
\* w > 1, not in w - 1 bytes; 239 needs 2 bytes.
C10_RequiredBytesSigned ==
    (kind = "signed" /\ pc = "sized") =>
        /\ rb \in 1..8
        /\ FitsSigned(v, rb)
        /\ rb > 1 => ~FitsSigned(v, rb - 1)
        /\ v = Num(239, 64) => rb = 2

C10_Witness ==
    kind = "signed" /\ pc = "sized" /\ v = Num(239, 64) /\ rb = 2

\* C2: record locality: the bytes serialize writes for a record decoded from
\* a well-formed input are exactly the bytes deserialize consumed for it.
C2_RecordLocality ==
    (rkind # "none" /\ wire # <<>> /\ pc \in {"written", "reparsed"}) =>
        outBytes = SubSeq(wire, 1, rec.pos)

C2_Witness ==
    /\ rkind = "AnnotationItem" /\ pc = "written"
    /\ Len(rec.val.annotation.elements) = MaxArrayLen
    /\ outBytes = wire

\* C3: size law: size() of a record equals the number of bytes its
\* serialize writes, for every EncodedValue variant and for the Header.
C3_SizeLaw ==
    (rkind # "none" /\ wire # <<>> /\ pc \in {"written", "reparsed"}) => sz = Len(outBytes)

C3_Witness ==
    /\ rkind = "Header" /\ pc = "written"
    /\ sz = 112 /\ Len(outBytes) = 112

\* C4: a record that deserialize produced, serialized into a zero-filled
\* buffer of size() bytes and decoded from the start of that buffer, comes
\* back equal.
C4_ReserializeEqual ==
    (rkind # "none" /\ wire # <<>> /\ pc = "reparsed") => (rec2.ok /\ rec2.val = rec.val)

C4_Witness ==
    /\ rkind = "EncodedValue" /\ pc = "reparsed"
    /\ rec.val.tag = "ValueLong" /\ IsNeg(rec.val.val)
    /\ rec2.ok /\ rec2.val = rec.val

\* C1: round trip: for a well-formed DEX input B, serialize(deserialize(B))
\* is B, the same length and the same byte at every offset.
C1_RoundTrip ==
    /\ (file \in DexFiles /\ pc = "loaded") => dex.ok
    /\ (file \in DexFiles /\ pc = "saved") => ser = file

C1_Witness ==
    /\ pc = "saved" /\ ser = file
    /\ Len(dex.val.string_data_items) = MaxStrings
    /\ Len(dex.val.encoded_array_items) = 1
    /\ Len(dex.val.link_data) > 0

\* C5: the vector serialize returns has length header.file_size, which for
\* a model obtained from deserialize is the length of the input file.
C5_SerializedLength ==
    (file \in DexFiles /\ pc = "saved") =>
        /\ Len(ser) = ToNat(dex.val.header.file_size)
        /\ Len(ser) = Len(file)

C5_Witness ==
    /\ pc = "saved" /\ file \in DexFiles
    /\ Len(ser) = ToNat(dex.val.header.file_size)
    /\ Len(ser) > 112 + 4 + 12 * 2

\* C6: section locality: between the offsets of two adjacent map entries the
\* output of serialize(deserialize(B)) has the bytes B has there.
C6_SectionLocality ==
    (file \in DexFiles /\ pc = "saved") =>
        \A i \in 1..(Len(dex.val.map_list) - 1) :
            LET from == ToNat(dex.val.map_list[i].offset)
                to == ToNat(dex.val.map_list[i + 1].offset)
            IN  /\ to <= Len(ser)
                /\ SubSeq(ser, from + 1, to) = SubSeq(file, from + 1, to)

C6_Witness ==
    /\ pc = "saved" /\ file \in DexFiles /\ Len(dex.val.map_list) >= 5
    /\ \A i \in 1..(Len(dex.val.map_list) - 1) :
            LET from == ToNat(dex.val.map_list[i].offset)
                to == ToNat(dex.val.map_list[i + 1].offset)
            IN  /\ from < to /\ to <= Len(ser)
                /\ SubSeq(ser, from + 1, to) = SubSeq(file, from + 1, to)

\* the low k bits of the pattern are all zero
LowBitsZero(b, k) == \A i \in 1..k : Bits(b)[i] = 0

\* the value is below 2^(8w): no bit at position 8w or above is set
FitsUnsigned(b, w) == \A i \in (8 * w + 1)..64 : Bits(b)[i] = 0

\* C11: for every u64 v, get_required_bytes_unsigned(v) is the least w in
\* 1..8 with v < 2^(8w); 0 needs 1 byte and 36420 needs 2.
C11_RequiredBytesUnsigned ==
    (kind = "unsigned" /\ pc = "sized") =>
        /\ rb \in 1..8
        /\ FitsUnsigned(v, rb)
        /\ rb > 1 => ~FitsUnsigned(v, rb - 1)
        /\ v = Zeros(64) => rb = 1
        /\ v = Num(36420, 64) => rb = 2

C11_Witness ==
    kind = "unsigned" /\ pc = "sized" /\ v = Num(36420, 64) /\ rb = 2

\* C12: for every f32 (f64) bit pattern p, get_required_bytes_for_f32
\* (_for_f64) is the least w >= 1 such that the low (4-w)*8 ((8-w)*8) bits of
\* p are zero; the zero pattern needs 1 byte, the pattern of 66048.0 needs 2.
C12_RequiredBytesFloat ==
    (kind \in {"f32", "f64"} /\ pc = "sized") =>
        LET full == IF kind = "f32" THEN 4 ELSE 8
        IN  /\ rb \in 1..full
            /\ LowBitsZero(v, (full - rb) * 8)
            /\ rb > 1 => ~LowBitsZero(v, (full - (rb - 1)) * 8)
            /\ v = Zeros(full * 8) => rb = 1
            /\ v = F32Bits66048 => rb = 2

C12_Witness ==
    kind = "f32" /\ pc = "sized" /\ v = F32Bits66048 /\ rb = 2

\* C13: a LEB128 encoding longer than five bytes (continuation bit still set
\* on the fifth byte) is a fatal decode error: decode_uleb128 and
\* decode_sleb128 never return a value for such input.
C13_LongLebFatal ==
    (op \in {"uleb128_wire", "sleb128_wire"} /\ pc = "decoded") =>
        (enc.bytes[5] >= 128 => ~dec.ok)

\* the case the checked build does stop: the shift count of the sixth byte
\* overflows in decode_uleb128
C13_Witness ==
    /\ op = "uleb128_wire" /\ pc = "decoded" /\ build = "debug"
    /\ enc.bytes = <<128, 128, 128, 128, 128, 0>> /\ ~dec.ok

\* C14: decoding a map item whose type_code is not one of the 21 values of
\* TypeCode fails cleanly: no model is produced, so no map item carrying a
\* code outside the enum is ever part of one.
C14_UnknownTypeCode ==
    pc \in {"loaded", "saved"} =>
        /\ file \in UnknownCodeFiles => ~dex.ok
        /\ dex.ok => \A k \in 1..Len(dex.val.map_list) :
                        ToNat(dex.val.map_list[k].type_code) \in TypeCodes

C14_Witness ==
    /\ pc = "loaded" /\ file \in UnknownCodeFiles /\ dex.ok
    /\ \E k \in 1..Len(dex.val.map_list) : dex.val.map_list[k].type_code = Num(8199, 16)

\* C15: deserialize of a path that cannot be opened returns
\* Err(DeserializeError::FileOpenError) carrying the OS error of the open
\* (2 for a missing path) and produces no model.
C15_FileOpenError ==
    (open_err # 0 /\ pc = "loaded") =>
        /\ ~dex.ok
        /\ dex.val = [error |-> "FileOpenError", raw_os_error |-> open_err]

C15_Witness ==
    /\ open_err = 2 /\ pc = "loaded" /\ ~dex.ok
    /\ dex.val = [error |-> "FileOpenError", raw_os_error |-> 2]

\* the sections deserialize reads under a map entry: the type code, and the
\* field of the decoded model
MappedSections ==
    {<<7, "call_site_ids">>, <<8, "method_handles">>,
     <<8194, "string_data_items">>, <<8196, "annotation_items">>,
     <<8197, "encoded_array_items">>}

C17_NbytesSignExtended ==
    (kind = "signed" /\ pc = "unpacked") =>
        /\ unpacked.ok
        /\ unpacked.val = SignExtend(packed, 64)
        /\ unpacked.val = v

\* the part of C17 the code keeps: a non-negative value comes back
C17_Witness ==
    /\ kind = "signed" /\ pc = "unpacked" /\ v = Num(239, 64)
    /\ packed = <<239, 0>> /\ unpacked.ok /\ unpacked.val = v

\* C18: packed floats are right-zero-padded bit patterns: for every f32
\* (f64) pattern v with w = get_required_bytes_for_f32(v) (_for_f64),
\* decoding the w bytes encode_nbytes_for_float(w, v) (_for_double) wrote
\* yields the value whose bit pattern is those bytes shifted left by
\* (4-w)*8 ((8-w)*8) bits, which is exactly v.
C18_PackedFloatBits ==
    (kind \in {"f32", "f64"} /\ pc = "unpacked") =>
        LET full == IF kind = "f32" THEN 4 ELSE 8
        IN  /\ unpacked.ok
            /\ unpacked.val = [i \in 1..(full - rb) |-> 0] \o packed
            /\ unpacked.val = v

\* the part of C18 the code keeps: the all-zero pattern (0.0) comes back
C18_Witness ==
    /\ kind = "f32" /\ pc = "unpacked" /\ v = Zeros(32)
    /\ packed = <<0>> /\ unpacked.ok /\ unpacked.val = v

\* C19: decode is map-driven: every section other than the header and the
\* map list is read from the offset its map entry declares (the id tables
\* and the data region, which the header locates at data_off, included), not
\* from where the section read before it ended: the decoded section is what
\* the file holds at the declared offset.
C19_MapDriven ==
    (pc \in {"loaded", "saved"} /\ file \in DexFiles /\ dex.ok) =>
        LET list == dex.val.map_list
            header == dex.val.header
        IN  /\ \A t \in 1..Len(IdTables) :
                  LET item == MapList_get(list, t)
                  IN  Len(item) > 0 =>
                        dex.val.ids[t] =
                            ReadItems(file, ToNat(item[1].offset),
                                      ToNat(item[1].size), IdTables[t][2]).val
            /\ dex.val.data =
                  SubSeq(file, ToNat(header.data_off) + 1,
                         ToNat(header.data_off) + ToNat(header.data_size))
            /\ \A s \in {<<8194, "StringDataItem", "string_data_items">>,
                          <<8197, "EncodedArrayItem", "encoded_array_items">>} :
                  LET item == MapList_get(list, s[1])
                  IN  Len(item) > 0 =>
                        dex.val[s[3]] =
                            DeserializeSection(s[2], file, ToNat(item[1].offset),
                                               ToNat(item[1].size), <<>>).val

\* the part of C19 the code keeps: in a file whose data section does not
\* follow the id tables directly, the string data items are still read at
\* the offset of their map entry
C19_Witness ==
    /\ pc = "loaded" /\ file \in DexFiles /\ dex.ok
    /\ ToNat(dex.val.header.data_off) > 112 + 4 * MaxStrings + 4 * MaxTypes
    /\ Len(dex.val.string_data_items) = MaxStrings
    /\ dex.val.string_data_items[1] = [utf16_size |-> Num(1, 32), data |-> <<97, 0>>]

\* C20: a TypeList is a u32 count followed by count 2-byte type indices, and
\* a 2-byte zero pad follows the list exactly when count is odd: decode
\* consumes that pad and encode emits it, so that every TypeList occupies a
\* multiple of 4 bytes.
C20_TypeListPad ==
    /\ (rkind = "TypeList" /\ pc # "start") =>
            /\ rec.ok
            /\ Num(Len(rec.val.list), 32) = SubSeq(wire, 1, 4)
            /\ Concat(rec.val.list) = SubSeq(wire, 5, 4 + 2 * Len(rec.val.list))
            /\ rec.pos = Len(wire) /\ rec.pos % 4 = 0
    /\ (rkind = "TypeList" /\ pc \in {"written", "reparsed"}) =>
            /\ outBytes = wire
            /\ Len(outBytes) % 4 = 0

\* the part of C20 the code keeps: the reader of the type list section
\* consumes the pad after a list of one item
C20_Witness ==
    /\ rkind = "TypeList" /\ pc = "parsed" /\ rec.ok
    /\ wire = <<1, 0, 0, 0, 5, 0, 0, 0>>
    /\ rec.val.list = <<<<5, 0>>>> /\ rec.pos = 8

\* the bytes the handler list of a decoded code item takes on the wire: what
\* lies after the header, the insns, the pad and the try items, less the
\* filler the section reader skipped after the item
HandlerBytes(pad) ==
    Len(outBytes) - (16 + 2 * Len(rec.val.insns) + pad + 8 * Len(rec.val.tries))

\* C21: a code item has two pad bytes between its insns and its try items
\* exactly when it has try items and an odd count of insns: deserialize
\* consumes them, serialize writes them as zero with the try items right
\* after, and size() is 16 + 2*insns + pad + 8*tries + the handler bytes;
\* without try items, or with an even count, nothing lies between them.
C21_CodeItemPad ==
    (rkind = "CodeItem" /\ pc \in {"written", "reparsed"}) =>
        LET n == Len(rec.val.insns)
            t == Len(rec.val.tries)
            pad == IF t # 0 /\ n % 2 = 1 THEN 2 ELSE 0
        IN  /\ rec.pos = Len(wire)
            /\ Len(wire) - Len(outBytes) \in 0..3
            /\ SubSeq(wire, 1, 16 + 2 * n) = SubSeq(outBytes, 1, 16 + 2 * n)
            /\ SubSeq(wire, 16 + 2 * n + pad + 1, Len(outBytes))
                   = SubSeq(outBytes, 16 + 2 * n + pad + 1, Len(outBytes))
            /\ sz = 16 + 2 * n + pad + 8 * t + HandlerBytes(pad)
            /\ SubSeq(outBytes, 17, 16 + 2 * n) = Concat(rec.val.insns)
            /\ SubSeq(outBytes, 16 + 2 * n + 1, 16 + 2 * n + pad) = [i \in 1..pad |-> 0]
            /\ SubSeq(outBytes, 16 + 2 * n + pad + 1, 16 + 2 * n + pad + 8 * t)
                   = Concat(rec.val.tries)

C21_Witness ==
    /\ rkind = "CodeItem" /\ pc = "written"
    /\ Len(rec.val.insns) = 3 /\ Len(rec.val.tries) = 2
    /\ SubSeq(outBytes, 23, 24) = <<0, 0>>
    /\ sz = Len(outBytes)

\* C30: a code item that deserialize returned has handlers exactly when it
\* has try items; serialize writes the count of try items as tries_size, and
\* bytes of a handler list follow the try items exactly when that tries_size
\* is not zero.
C30_HandlersIffTries ==
    (rkind = "CodeItem" /\ pc # "start" /\ rec.ok) =>
        LET n == Len(rec.val.insns)
            t == Len(rec.val.tries)
            pad == IF t # 0 /\ n % 2 = 1 THEN 2 ELSE 0
        IN  /\ (rec.val.handlers # <<>>) <=> (rec.val.tries # <<>>)
            /\ pc \in {"written", "reparsed"} =>
                  /\ SubSeq(outBytes, 7, 8) = Num(t, 16)
                  /\ (Len(outBytes) > 16 + 2 * n + pad + 8 * t)
                         <=> (SubSeq(outBytes, 7, 8) # <<0, 0>>)
                  /\ SubSeq(outBytes, 16 + 2 * n + pad + 8 * t + 1, Len(outBytes))
                         = SubSeq(wire, 16 + 2 * n + pad + 8 * t + 1, Len(outBytes))

C30_Witness ==
    /\ rkind = "CodeItem" /\ pc = "written"
    /\ Len(rec.val.tries) = 2
    /\ Len(rec.val.handlers) = 1 /\ Len(rec.val.handlers[1].list) = 2
    /\ SubSeq(outBytes, 7, 8) = <<2, 0>>
    /\ Len(outBytes) > 16 + 2 * Len(rec.val.insns) + 8 * 2 + 2

C27_DebugInfoWhole ==
    (rkind = "DebugInfoItem" /\ pc # "start") =>
        /\ rec.ok
        /\ rec.val.line_start = Num(wire[1], 32)
        /\ Len(rec.val.parameter_names) = wire[2]
        /\ rec.pos = Len(wire)
        /\ rec.val.bytecode = SubSeq(wire, 3 + wire[2], Len(wire))

\* the part of C27 the code keeps: bytecode without a zero operand byte is
\* taken whole
C27_Witness ==
    /\ rkind = "DebugInfoItem" /\ pc = "parsed" /\ rec.ok
    /\ wire = <<1, 1, 6, 7, 1, 4, 0>>
    /\ rec.val.parameter_names = <<Num(5, 32)>>
    /\ rec.val.bytecode = <<7, 1, 4, 0>> /\ rec.pos = 7

\* C28: after each record of a section of 4-byte aligned records the reader
\* skips filler up to the next multiple of 4 of the cursor position, at most
\* 3 bytes, and accepts the record only when every byte it skipped is zero.
C28_FillerZero ==
    (rkind \in {"CodeItem", "TypeList"} /\ pc # "start" /\ rec.ok) =>
        LET item == Deserialize(rkind, wire, 0)
        IN  /\ rec.pos % 4 = 0
            /\ rec.pos - item.pos \in 0..3
            /\ \A i \in (item.pos + 1)..rec.pos : wire[i] = 0

\* the part of C28 the code keeps: two bytes of zero filler after a code
\* item of one insn are skipped
C28_Witness ==
    /\ rkind = "CodeItem" /\ pc = "parsed" /\ rec.ok
    /\ Len(rec.val.insns) = 1 /\ Len(rec.val.tries) = 0
    /\ Len(wire) = 20 /\ SubSeq(wire, 19, 20) = <<0, 0>>
    /\ rec.pos = 20

\* C25: decoding an encoded value panics, and yields no value, when the low
\* five bits of its header byte are none of the 18 type codes, and when the
\* high three bits are not zero on a ValueByte (0x00), a ValueArray (0x1c),
\* a ValueAnnotation (0x1d) or a ValueNull (0x1e).
C25_ValueHeaderFatal ==
    (rkind = "EncodedValue" /\ pc # "start") =>
        LET value_type == wire[1] % 32
            value_arg == wire[1] \div 32
        IN  /\ Cardinality({get_type_code[t] : t \in DOMAIN get_type_code}) = 18
            /\ (\A t \in DOMAIN get_type_code : get_type_code[t] # value_type)
                   => (~rec.ok /\ rec = Failed)
            /\ (value_type \in {0, 28, 29, 30} /\ value_arg # 0)
                   => (~rec.ok /\ rec = Failed)

C25_Witness ==
    /\ rkind = "EncodedValue" /\ pc = "parsed"
    /\ wire[1] = 2 * 32 + 30
    /\ ~rec.ok

\* a terminated encoding in shortest form: its last byte is not zero, or it
\* is the single byte 0x00
ShortestForm(b) == b[Len(b)] # 0 \/ b = <<0>>

\* C29: encode_uleb128 writes its argument in shortest form, and a
\* terminated encoding of at most five bytes, decoded and encoded again,
\* comes back as the same bytes exactly when it is in shortest form.
C29_ShortestForm ==
    /\ (op = "uleb128" /\ pc \in {"encoded", "decoded"}) =>
            (~enc.panicked /\ ShortestForm(enc.bytes))
    /\ (op = "uleb128_reencode" /\ pc = "reencoded") =>
            /\ ~enc.panicked /\ ShortestForm(enc.bytes)
            /\ (enc.bytes = x) <=> ShortestForm(x)

\* the part of C29 the code keeps: five bytes whose last byte stays within
\* the 32 bits come back as they were, and a trailing zero byte is dropped
C29_Witness ==
    /\ op = "uleb128_reencode" /\ pc = "reencoded"
    /\ \/ x = <<255, 255, 255, 255, 15>> /\ enc.bytes = x
       \/ x = <<129, 0>> /\ enc.bytes = <<1>>

\* where the k-th instruction decode_insns pushed began in the input
StartOf(k) == IF k = 1 THEN 0 ELSE ends[k - 1]

\* C22: in decode_insns on an array of n code units every turn of the loop
\* takes size/2 of the instruction decoded off the count; the count never
\* drops below zero (the subtraction neither panics nor wraps, and the
\* bytes read so far and the count left add up to the array), and the loop
\* stops exactly when the sizes of the instructions sum to 2n bytes.
C22_BudgetExact ==
    (pc \in {"decoding", "panicked", "returned", "serialized"} /\ input # <<>>) =>
        /\ Len(sizes) = Len(decoded)
        /\ Below(units, insns_size + 1)
        /\ ipos + 2 * ToNat(SubSeq(units, 1, 3)) = 2 * insns_size
        /\ Sum(sizes) = ipos
        /\ (units = Zeros(64)) <=> (Sum(sizes) = 2 * insns_size)
        /\ pc \in {"returned", "serialized"} => units = Zeros(64)

\* the part of C22 the code keeps: an array of two whole instructions is
\* decoded in two turns and the count ends on zero
C22_Witness ==
    /\ pc = "returned" /\ input = <<2, 1, 5, 0, 24, 1, 1, 2, 3, 4, 5, 6, 7, 8>>
    /\ insns_size = 7 /\ units = Zeros(64)
    /\ sizes = <<4, 10>> /\ ipos = 14

\* C23: each opcode falls in exactly one arm of the match of decode_insn,
\* and an instruction decode_insn returned serializes to exactly the bytes
\* that were read for it, opcode and nybble-packed bytes included.
C23_InsnInverse ==
    /\ pc \in {"decoding", "returned", "serialized"} =>
            \A opcode \in 0..255 :
                Cardinality({k \in 1..Len(Arms) :
                                Arms[k][1] <= opcode /\ opcode <= Arms[k][2]}) = 1
    /\ pc = "serialized" =>
            \A k \in 1..Len(decoded) :
                emitted[k] = SubSeq(input, StartOf(k) + 1, ends[k])

\* the part of C23 the code keeps: an instruction of shape 35c comes back
\* with its three packed bytes
C23_Witness ==
    /\ pc = "serialized" /\ Len(decoded) = 1
    /\ decoded[1].shape = "Ins35c" /\ decoded[1].op = 110
    /\ decoded[1].args[1] = 10 /\ decoded[1].args[7] = 12
    /\ emitted[1] = input /\ input[2] = 172

\* C24: size() of an instruction decode_insn returned is the number of
\* bytes read for it and the number of bytes its serialize writes: 2, 4, 6,
\* 8 or 10 for the fixed shapes, size*4 + 8 for a packed-switch payload,
\* size*8 + 4 for a sparse-switch payload, size*element_width + 8 rounded up
\* to even for a fill-array-data payload.
C24_InsnSize ==
    /\ pc \in {"decoding", "panicked", "returned", "serialized"} =>
            \A k \in 1..Len(ends) :
                LET at == StartOf(k)
                    count == input[at + 3] + 256 * input[at + 4]
                    width == input[at + 3] + 256 * input[at + 4]
                    elems == ToNat(SubSeq(input, at + 5, at + 8))
                IN  /\ sizes[k] = ends[k] - at
                    /\ sizes[k] =
                          CASE decoded[k].shape = "PackedSwitchPayload" -> count * 4 + 8
                            [] decoded[k].shape = "SparseSwitchPayload" -> count * 8 + 4
                            [] decoded[k].shape = "FillArrayDataPayload" ->
                                  2 * ((elems * width + 8 + 1) \div 2)
                            [] OTHER -> sizes[k]
                    /\ decoded[k].shape \notin {"PackedSwitchPayload", "SparseSwitchPayload",
                                               "FillArrayDataPayload"}
                          => sizes[k] \in {2, 4, 6, 8, 10}
    /\ pc = "serialized" =>
            \A k \in 1..Len(decoded) : sizes[k] = Len(emitted[k])

C24_Witness ==
    /\ pc = "serialized" /\ Len(decoded) = 1
    /\ decoded[1].shape = "FillArrayDataPayload"
    /\ Len(decoded[1].data) = 3
    /\ sizes = <<12>> /\ Len(emitted[1]) = 12 /\ ends = <<12>>

====
